---------------------------- MODULE Spec2Model ----------------------------
(***************************************************************************)
(* A model of the nes_em emulator core: the PPU scanline/dot counter with  *)
(* VBlank and NMI generation, the PPU register latches, PPU memory behind  *)
(* PPUADDR/PPUDATA with nametable mirroring, OAM and OAM DMA, the standard *)
(* controller shift register, the memory-mapped bus and the CPU run loop   *)
(* with NMI servicing.                                                     *)
(*                                                                         *)
(* Arrays that the program zero-initialises (work RAM, OAM, VRAM, palette) *)
(* are held sparsely: a function from the indices holding a non-zero byte  *)
(* to that byte; every other index reads 0.  The CHR bank, all zero in the *)
(* cartridges explored, is held the same way.                              *)
(***************************************************************************)
EXTENDS Integers, Sequences, FiniteSets, TLC

VARIABLES
    \* ---- PPU (nes/src/ppu/ppu.rs) ----
    ppuctrl,        \* PPUCTRL bits
    ppumask,        \* PPUMASK bits
    ppustatus,      \* PPUSTATUS bits
    oam_data,       \* OAM, sparse
    scroll_data,    \* PPUSCROLL.data, <<x, y>>
    scroll_latch,   \* PPUSCROLL.latch
    ppuaddr,        \* PPUADDR.value
    addr_latch,     \* PPUADDR.latch
    scanline,       \* PPU.scanline
    cycles,         \* PPU.cycles (dots into the scanline)
    nmi_interrupt,  \* PPU.nmi_interrupt
    oamaddr,        \* OAMADDR.data
    vram,           \* PPU.vram (2 KiB), sparse
    palette_table,  \* PPU.palette_table (32 bytes), sparse
    chr_rom,        \* PPU.chr_rom (one 8 KiB bank), sparse
    read_buffer,    \* PPUDATA.read_buffer
    mirroring,      \* PPU.mirroring
    \* ---- Bus (nes/src/bus.rs) ----
    cpu_ram,        \* work RAM, sparse
    bus_cycles,     \* Bus.cycles
    frames,         \* number of times the host frame callback has run
    \* ---- Controller (nes/src/controller/controller.rs) ----
    buttons,        \* JoypadRegister bits
    strobe,         \* Controller.strobe
    button_index,   \* Controller.button_index
    strobe_2,       \* strobe of the second controller
    button_index_2, \* button_index of the second controller
    \* ---- CPU (nes/src/cpu/cpu.rs) ----
    accumulator, register_x, register_y,
    program_counter,
    status,         \* ProcessorStatus bits
    stack_pointer,  \* Stack.stack_pointer (16 bit)
    rom,            \* which cartridge image is loaded
    code,           \* PRG bytes from $8000 on of the image under test
    phase,          \* position of CPU::run inside its loop
    passed_cycles,  \* cycle count returned by the instruction just executed
    charged,        \* cycles reported so far by the executed instructions
                    \* and the serviced interrupts (observation)
    \* ---- observation of the last operation ----
    op,             \* name of the last operation performed
    ret,            \* value it returned (booleans as 0/1)
    toggle_writes,  \* registers written through $2005/$2006 since the toggle
                    \* was last in its first-write state
    strobed,        \* "never", "high" (the last strobe write had bit 0 set)
                    \* or "released" (it was set and has been cleared)
    n_reads,        \* controller reads since strobed last changed
    access,         \* PPUADDR and PPUDATA accesses since the PPUADDR latch
                    \* was last in its first-write state
    bus_addr,       \* address of the last 8-bit bus access made by the host
    n_bus           \* number of 8-bit bus accesses made by the host

ppuVars == <<ppuctrl, ppumask, ppustatus, oam_data, scroll_data, scroll_latch,
             ppuaddr, addr_latch, scanline, cycles, nmi_interrupt>>
busVars == <<cpu_ram, bus_cycles, frames>>
ctlVars == <<buttons, strobe, button_index>>
ctl2Vars == <<strobe_2, button_index_2>>
memVars == <<oamaddr, vram, palette_table, chr_rom, read_buffer, mirroring,
            access>>
cpuVars == <<accumulator, register_x, register_y, program_counter, status,
             stack_pointer, rom, code, phase, passed_cycles,
             charged>>
obsVars == <<op, ret, toggle_writes, strobed, n_reads, access>>
hostVars == <<bus_addr, n_bus>>
vars == <<ppuVars, memVars, busVars, ctlVars, ctl2Vars, cpuVars, obsVars,
          hostVars>>

----------------------------------------------------------------------------
(* Bit arithmetic on naturals.                                             *)

RECURSIVE BitAnd(_, _)
BitAnd(a, b) ==
    IF a = 0 \/ b = 0 THEN 0
    ELSE (a % 2) * (b % 2) + 2 * BitAnd(a \div 2, b \div 2)

BitOr(a, b) == a + b - BitAnd(a, b)

\* bitflags' contains(flag)
Contains(bits, flag) == BitAnd(bits, flag) = flag

\* bitflags' set(flag, on)
SetFlag(bits, flag, on) ==
    IF on THEN BitOr(bits, flag) ELSE bits - BitAnd(bits, flag)

Bool2Int(b) == IF b THEN 1 ELSE 0

\* A zero-initialised array held sparsely.
ArrRead(arr, i) == IF i \in DOMAIN arr THEN arr[i] ELSE 0

ArrWrite(arr, i, v) ==
    IF v = 0
    THEN [j \in DOMAIN arr \ {i} |-> arr[j]]
    ELSE [j \in DOMAIN arr \cup {i} |-> IF j = i THEN v ELSE arr[j]]

EmptyArr == [j \in {} |-> 0]

\* The result of an access that panics.
Panic == -1

----------------------------------------------------------------------------
(* Bounds of the model.                                                    *)

\* Frames after which the bus is no longer ticked.
MaxFrames == 1

\* CPU cycle counts handed to Bus::tick: two instruction lengths and the
\* largest count whose dot count (times 3) still fits the u8 argument.
TickCycles == {5, 85}

\* Values written to PPUCTRL: NMI-enable clear and set.
CtrlBytes == {0, 128}

\* The cycle count of the ticks that pass time between register accesses.
CoarseCycles == {85}

\* The byte written to PPUSCROLL and PPUADDR: as a high address byte it has
\* bits above the 14-bit VRAM address, and its two address halves differ.
RegBytes == {244}

\* Length up to which toggle_writes records the $2005/$2006 writes.
MaxToggleWrites == 2

\* Controller reads counted since the strobe last changed.
MaxReads == 10

\* Values written to the controller port: bit 0 is the strobe.
PortBytes == {0, 1, 2, 3}

\* PPUDATA accesses explored after each setting of the VRAM address.
MaxData == 2

\* Non-zero bytes held in CHR, VRAM and palette memory together.
MaxCells == 1

\* Non-zero bytes explored in OAM through OAMDATA writes.
MaxOam == 1

\* 8-bit bus accesses the host makes in one run.
MaxBus == 3

\* Bytes written to PPUMASK: sprite rendering off and on.
MaskBytes == {0, 16}

\* Bytes written to OAMADDR and to OAMDATA by the host.
OamAddrBytes == {0}
OamBytes == {1}

\* Work RAM addresses the host accesses: $0205, its mirror $0A05, and $0206.
RamAddrs == {517, 2565, 518}

\* Bytes written to $2003 before a DMA, and the pages written to $4014: work
\* RAM ($02, and $0A which mirrors it), the PPU registers ($20), the page of
\* $4014 itself ($40), and the first and last pages of PRG ROM ($80, $FF).
OamStartBytes == {0, 254}
DmaPages == {2, 10, 32, 64, 128, 255}

\* One mirror of each of the eight PPU registers $2000-$2007, at $2008,
\* $2011, $27FA, $3FFB, $2FFC, $300D, $3FFE and $3FFF.
MirrorAddrs == {8200, 8209, 10234, 16379, 12284, 12301, 16382, 16383}

\* The byte written to the PPU registers through their mirrors: as PPUADDR
\* halves it gives the nametable address $2323.
IoBytes == {35}

\* The number of instructions of a program under test, before its closing
\* KIL.
MaxProgram == 4

\* The instructions of the programs that exercise the stack:
\* LDX #$02, LDX #$FE, TXS, LDA #$80, PHA, PLA.
StackOps == {<<162, 2>>, <<162, 254>>, <<154>>, <<169, 128>>, <<72>>,
             <<104>>}

\* The instructions of the programs that exercise the status register:
\* CLI, SEC, PHP, PLP, BRK, LDA #$DF, PHA.
FlagOps == {<<88>>, <<56>>, <<8>>, <<40>>, <<0>>, <<169, 223>>, <<72>>}

\* The instructions of the programs that end in each way: two KILs, XAA,
\* LDA #$01, PLA, BRK.
HaltOps == {<<18>>, <<242>>, <<139, 0>>, <<169, 1>>, <<104>>, <<0>>}

\* The operands of the arithmetic programs.
AluBytes == {0, 1, 63, 64, 80, 127, 128, 129, 191, 192, 254, 255}

\* A run that can leave its program is followed until this many cycles have
\* been charged.
MaxCharged == 32

\* The branch programs: an instruction sequence that leaves the flags a
\* given way (CLC; SEC; LDA #$00; LDA #$80; LDA #$7F, ADC #$01), each
\* branch opcode, and offsets forwards and backwards, within the page and
\* out of it.
BranchPrefixes == {<<24>>, <<56>>, <<169, 0>>, <<169, 128>>,
                   <<169, 127, 105, 1>>}
BranchBytes == {16, 48, 80, 112, 144, 176, 208, 240}
BranchOffsets == {1, 127, 128, 253, 255}

\* The indexed reads: the index register values, the base addresses (the
\* last byte of a page, the start of one, the last address) as low and high
\* operand bytes.
IndexBytes == {0, 1, 255}
IndexBases == {<<255, 0>>, <<0, 2>>, <<255, 255>>}

\* The instructions of the programs that exercise the no-operation
\* opcodes: NOP, DOP #$00, DOP $10, DOP $10,X, TOP $0200, TOP $02FF,X,
\* LDX #$01.
NopOps == {<<234>>, <<128, 0>>, <<4, 16>>, <<20, 16>>, <<12, 0, 2>>,
           <<28, 255, 2>>, <<162, 1>>}

\* The instructions of the traced programs: LDA $2008, LDA $200A (mirrors
\* of PPUCTRL and PPUSTATUS), LDA $2002, STA $2006, LDA $0010, LDA $4016.
TraceOps == {<<173, 8, 32>>, <<173, 10, 32>>, <<173, 2, 32>>,
             <<141, 6, 32>>, <<173, 16, 0>>, <<173, 22, 64>>}

\* The instructions of the programs handed to the first interpreter:
\* LDA #$00, LDA #$7F, LDA #$C0, LDA #$FF, TAX, INX; and the number of
\* instructions of such a program before its BRK.
InterpretOps == {<<169, 0>>, <<169, 127>>, <<169, 192>>, <<169, 255>>,
                 <<170>>, <<232>>}
MaxInterpret == 2

\* The pointers of the indirect jumps, as low and high operand bytes: in RAM
\* at the end of a page ($02FF), at its start, before its end, at the start of
\* the next, at the end of RAM, in a mirror of RAM ($0AFF), and in PRG ROM at
\* the start and the end of a page and at the last address.
JumpPointers == {<<255, 2>>, <<0, 2>>, <<254, 2>>, <<0, 3>>, <<255, 7>>,
                 <<255, 10>>, <<0, 128>>, <<255, 128>>, <<255, 255>>}
JumpBytes == {18, 144}

\* The values of X the call programs transfer to the stack pointer, and the
\* pushes they make before the call: none, PHA, PHA PHA.
CallBytes == {0, 1, 2, 3, 127, 128, 253, 254, 255}
CallPads == {<<>>, <<72>>, <<72, 72>>}

\* Program counter values at both ends of a page and of the address space.
BranchPcs == {0, 2, 255, 256, 33022, 33024, 65535}

\* The registers the host reads, the PRG ROM addresses it writes to, and the
\* words it reads: in RAM, at the end of RAM and of its last mirror, at the
\* RESET vector and at the end of PRG ROM.
ReadPorts == {8192, 8193, 8194, 8195, 8197, 8198, 16404}
RomAddrs == {32768, 49152, 65535}
WordAddrs == {517, 2047, 8191, 65532, 65535}

\* PPUCTRL values for both settings of the increment bit.
StepBytes == {0, 4}

\* Bytes written to $2006 as the high byte: a CHR page ($C3, masked to $03),
\* the last nametable's page, a page of the unmapped range and the palette
\* page.
MemPages == {195, 47, 51, 63}

\* Bytes written to $2006 as the high byte: a page of each nametable.
TablePages == {35, 39, 43, 47}

\* Bytes written to $2006 as the low byte.
LowBytes == {5}

\* The bytes a $2006 write is tried with, by the state of the latch.
AddrBytes(pages) == IF addr_latch THEN pages ELSE LowBytes

\* Bytes written to $2007.
DataBytes == {0, 90}

\* The mirroring modes of the cartridges explored.
Mirrorings == {"Vertical", "Horizontal"}

----------------------------------------------------------------------------
(* PPU: nes/src/ppu/ppu.rs                                                 *)

SPRITE_OVERFLOW == 32
SPRITE_ZERO_HIT_FLAG == 64
VBLANK_FLAG == 128
NMI_ENABLE == 128
ENABLE_SPRITE_RENDERING == 16

is_sprite_0_hit(cycle) ==
    /\ ArrRead(oam_data, 0) = scanline
    /\ ArrRead(oam_data, 3) <= cycle
    /\ Contains(ppumask, ENABLE_SPRITE_RENDERING)

\* The scanline on which vertical blanking starts (tick, line 87).
VblankStarts(sl) == sl = 241

\* Mutant: the frame wraps one scanline late.
FrameEnds_late(sl) == sl > 262

\* The scanline count at which the frame wraps (tick, line 93).
FrameEnds(sl) == sl >= 262

\* Mutant: vertical blanking arms the NMI whatever PPUCTRL says.
NmiAtVblank_always == TRUE

\* What the NMI-pending flag becomes when vertical blanking starts (line 90).
NmiAtVblank == Contains(ppuctrl, NMI_ENABLE)

\* Mutant: the end of the frame leaves the VBlank bit as it is.
StatusAtFrameEnd_vblank_kept(st) == SetFlag(st, SPRITE_ZERO_HIT_FLAG, FALSE)

\* The status byte when the frame wraps (tick, lines 96-97).
StatusAtFrameEnd(st) ==
    SetFlag(SetFlag(st, VBLANK_FLAG, FALSE), SPRITE_ZERO_HIT_FLAG, FALSE)

\* PPU::tick(n): the new counters, status and NMI flag, and the returned
\* end-of-frame signal.  pending is the NMI flag when the tick starts.
PPU_tick(pending, n) ==
    LET c1 == cycles + n IN
    IF c1 < 341
    THEN [cycles |-> c1, scanline |-> scanline, ppustatus |-> ppustatus,
          nmi_interrupt |-> pending, ret |-> FALSE]
    ELSE
        LET st1 == IF is_sprite_0_hit(c1)
                   THEN SetFlag(ppustatus, SPRITE_ZERO_HIT_FLAG, FALSE)
                   ELSE ppustatus
            c2  == c1 - 341
            sl1 == scanline + 1
            st2 == IF VblankStarts(sl1)
                   THEN SetFlag(SetFlag(st1, VBLANK_FLAG, TRUE),
                                SPRITE_ZERO_HIT_FLAG, FALSE)
                   ELSE st1
            nm2 == IF VblankStarts(sl1) THEN NmiAtVblank ELSE pending
        IN  IF FrameEnds(sl1)
            THEN [cycles |-> c2, scanline |-> 0,
                  ppustatus |-> StatusAtFrameEnd(st2),
                  nmi_interrupt |-> FALSE, ret |-> TRUE]
            ELSE [cycles |-> c2, scanline |-> sl1, ppustatus |-> st2,
                  nmi_interrupt |-> nm2, ret |-> FALSE]

\* Mutant: the PPU is ticked by the CPU cycle count itself.
TickDots_once(c) == c % 256

\* The dot count Bus::tick hands to the PPU: cycles * 3 in u8 arithmetic.
TickDots(c) == (c * 3) % 256

\* Mutant: the frame callback runs whenever a scanline was completed.
CallbackRuns_each_line(r) == r.scanline # scanline

\* Whether Bus::tick invokes the frame callback, given what PPU::tick
\* produced.
CallbackRuns(r) == r.ret

\* Bus::tick(c) as a change of the bus-owned state.  pending is the NMI flag
\* when the tick starts.
Bus_tick(pending, c) ==
    LET r == PPU_tick(pending, TickDots(c)) IN
    /\ bus_cycles' = bus_cycles + c
    /\ cycles' = r.cycles
    /\ scanline' = r.scanline
    /\ ppustatus' = r.ppustatus
    /\ nmi_interrupt' = r.nmi_interrupt
    /\ frames' = IF CallbackRuns(r) THEN frames + 1 ELSE frames

\* Mutant: the write leaves the NMI-pending flag as it was.
NmiAfterCtrlWrite_no_edge(value) == nmi_interrupt

\* PPU::write_ppuctrl: the NMI-pending flag after the write.
NmiAfterCtrlWrite(value) ==
    /\ ~Contains(ppuctrl, NMI_ENABLE)
    /\ Contains(value, NMI_ENABLE)
    /\ Contains(ppustatus, VBLANK_FLAG)

\* PPU::poll_nmi_interrupt: the returned value.
poll_nmi_interrupt == nmi_interrupt

\* PPUSCROLL::write: <<data, latch>> after the write.
PPUSCROLL_write(value) ==
    LET l == ~scroll_latch IN
    IF l THEN <<<<value, scroll_data[2]>>, l>>
         ELSE <<<<scroll_data[1], value>>, l>>

\* PPUADDR::set
PPUADDR_set(value) == BitAnd(value, 16383)

\* Which byte of the address a PPUADDR write replaces: TRUE for the high one.
PPUADDR_first(latch) == latch

\* PPUADDR::write: <<value, latch>> after the write.
PPUADDR_write(value) ==
    LET hi == ppuaddr \div 256
        lo == ppuaddr % 256
    IN  IF PPUADDR_first(addr_latch)
        THEN <<PPUADDR_set(value * 256 + lo), ~addr_latch>>
        ELSE <<PPUADDR_set(hi * 256 + value), ~addr_latch>>

\* PPUADDR::reset_latch
PPUADDR_reset_latch == TRUE

\* Mutant: the PPUSCROLL latch is left as it was.
PPUSCROLL_reset_latch_kept == scroll_latch

\* PPUSCROLL::reset_latch
PPUSCROLL_reset_latch == FALSE

\* toggle_writes with one more write recorded.
Recorded(reg) ==
    IF Len(toggle_writes) < MaxToggleWrites
    THEN Append(toggle_writes, reg)
    ELSE toggle_writes

\* The access record after one more access: a PPUADDR write made in the
\* first-write state starts it afresh.
Accessed(event) ==
    IF event.kind = "addr" /\ addr_latch THEN <<event>>
    ELSE Append(access, event)

\* The status byte PPU::read_ppustatus leaves behind.
StatusAfterRead == SetFlag(ppustatus, VBLANK_FLAG, FALSE)

\* ---- PPU memory behind PPUADDR / PPUDATA, and OAM ----

ADDR_INCREMENT == 4
VRAM_NAMETABLE_SIZE == 1024
PALETTE_RAM_START == 16128

\* Mutant: the increment bit read the wrong way round.
address_increment_swapped(ctrl) ==
    IF Contains(ctrl, ADDR_INCREMENT) THEN 1 ELSE 32

\* PPUCTRL::address_increment
address_increment(ctrl) ==
    IF Contains(ctrl, ADDR_INCREMENT) THEN 32 ELSE 1

\* PPUADDR::inc
PPUADDR_inc(value, by) == PPUADDR_set((value + by) % 65536)

\* PPU::increment_ppuaddr: the VRAM address after a PPUDATA access.
increment_ppuaddr == PPUADDR_inc(ppuaddr, address_increment(ppuctrl))

\* Mutant: every nametable is folded onto the first one.
NametableFold_first(mode, table) == table * VRAM_NAMETABLE_SIZE

\* mirror_vram_addr, lines 259-265: how far nametable number table is moved
\* down to fold the four nametables into the 2 KiB of VRAM.
NametableFold(mode, table) ==
    CASE (mode = "Vertical" /\ table \in {2, 3})
           \/ (mode = "Horizontal" /\ table = 3) -> 2 * VRAM_NAMETABLE_SIZE
      [] mode = "Horizontal" /\ table \in {1, 2} -> VRAM_NAMETABLE_SIZE
      [] OTHER -> 0

\* PPU::mirror_vram_addr
mirror_vram_addr(address) ==
    LET vram_index == BitAnd(address, 12287) - 8192 IN
    vram_index - NametableFold(mirroring, vram_index \div VRAM_NAMETABLE_SIZE)

\* The arm of the match in read_ppudata and write_ppudata an address takes.
Region(address) ==
    IF address <= 8191 THEN "chr"
    ELSE IF address <= 12287 THEN "vram"
    ELSE IF address >= PALETTE_RAM_START /\ address <= 16383 THEN "palette"
    ELSE "unmapped"

\* Whether a PPUDATA access at the address indexes its array within bounds
\* (vram has 2048 entries, palette_table 32, chr_rom one 8 KiB bank).
InBounds(address) ==
    CASE Region(address) = "chr" -> TRUE
      [] Region(address) = "vram" -> mirror_vram_addr(address) < 2048
      [] Region(address) = "palette" -> address - PALETTE_RAM_START < 32
      [] OTHER -> FALSE

\* PPU::read_ppudata: the returned byte, the read buffer and the VRAM address
\* afterwards, and whether the read returned or panicked.
read_ppudata ==
    LET address == ppuaddr
        fetched ==
            CASE Region(address) = "chr" -> ArrRead(chr_rom, address)
              [] Region(address) = "vram" ->
                   ArrRead(vram, mirror_vram_addr(address))
              [] OTHER -> ArrRead(palette_table, address - PALETTE_RAM_START)
        direct == Region(address) = "palette"
    IN  [outcome |-> IF InBounds(address) THEN "ok" ELSE "panic",
         value |-> IF direct THEN fetched ELSE read_buffer,
         read_buffer |-> IF direct THEN read_buffer ELSE fetched,
         ppuaddr |-> increment_ppuaddr]

\* PPU::write_ppudata(value): the three memories and the VRAM address
\* afterwards, and whether the write returned or panicked.
write_ppudata(value) ==
    LET address == ppuaddr IN
    [outcome |-> IF InBounds(address) THEN "ok" ELSE "panic",
     chr_rom |-> IF Region(address) = "chr"
                 THEN ArrWrite(chr_rom, address, value) ELSE chr_rom,
     vram |-> IF Region(address) = "vram"
              THEN ArrWrite(vram, mirror_vram_addr(address), value)
              ELSE vram,
     palette_table |->
         IF Region(address) = "palette"
         THEN ArrWrite(palette_table, address - PALETTE_RAM_START, value)
         ELSE palette_table,
     ppuaddr |-> increment_ppuaddr]


----------------------------------------------------------------------------
(* Controller: nes/src/controller/controller.rs, register.rs               *)

BUTTON_A == 1
BUTTON_B == 2
SELECT == 4
START == 8
UP == 16
DOWN == 32
LEFT == 64
RIGHT == 128

Buttons == {BUTTON_A, BUTTON_B, SELECT, START, UP, DOWN, LEFT, RIGHT}

RECURSIVE Pow2(_)
Pow2(n) == IF n = 0 THEN 1 ELSE 2 * Pow2(n - 1)

\* JoypadRegister::get_button_state
get_button_state(index) ==
    IF index >= 8 THEN 1
    ELSE BitAnd(buttons, Pow2(index)) \div Pow2(index)

\* Mutant: the index stops one short, on the last button.
IndexAdvances_short == ~strobe /\ button_index < 7

\* Mutant: the index advances whatever the strobe is.
IndexAdvances_strobe_blind == button_index <= 7

\* Controller::read: whether the read moves on to the next button.
IndexAdvances == ~strobe /\ button_index <= 7

\* Controller::write: the strobe bit of the written value.
StrobeOf(value) == BitAnd(value, 1) = 1

----------------------------------------------------------------------------
(* Cartridge images and the CPU's view of the bus.                         *)

\* ProcessorStatus flags (cpu/register/status.rs)
CARRY_FLAG == 1
ZERO_FLAG == 2
INTERRUPT_DISABLE_FLAG == 4
DECIMAL_FLAG == 8
B_FLAG == 16
B_FLAG_2 == 32
OVERFLOW_FLAG == 64
NEGATIVE_FLAG == 128

\* ProcessorStatus::INITIAL_STATE and the stack's INITIAL_STACK_POINTER
INITIAL_STATE == 36
INITIAL_STACK_POINTER == 509

\* Interrupt vectors (cpu/cpu.rs)
NMI_INTERRUPT_VECTOR == 65530
RESET_INTERRUPT_VECTOR == 65532
IRQ_INTERRUPT_VECTOR == 65534

\* Length of Bus.prg_rom for a cartridge with one PRG bank (rom/rom.rs).
PRG_ROM_SIZE == 16384

\* The cartridge images the runs are explored on.
RomImages == {1, 2, 3}

\* The image whose code is an input of the run: its PRG bank starts with the
\* bytes of the variable code, holds an RTI at $9000 and is zero elsewhere.
TestImage == 4

\* Offset in the PRG bank of the test image's interrupt handler, and the
\* handler: RTI.
HandlerIndex == 4096
Handler == <<64>>

\* The code at the start of each image's PRG bank (CPU address $8000).
\*   1: CLI; LDA #$80; STA $2000; L: LDA $2002; JMP L;  N: PHA; JMP L
\*   2: CLI; LDA #$80; STA $2000; L: JSR L
\*   3: LDA #$01; PHA; KIL
Program(image) ==
    CASE image = 1 -> <<88, 169, 128, 141, 0, 32, 173, 2, 32, 76, 6, 128,
                        72, 76, 6, 128>>
      [] image = 2 -> <<88, 169, 128, 141, 0, 32, 32, 6, 128>>
      [] image = TestImage -> code
      [] OTHER     -> <<169, 1, 72, 2>>

\* The last six bytes of each image: the NMI, RESET and IRQ vectors
\* (1: N = $800C, 2: L = $8006, 3: $8000; RESET and IRQ at $8000; the test
\* image: NMI and IRQ at $9000).
Vectors(image) ==
    CASE image = 1 -> <<12, 128, 0, 128, 0, 128>>
      [] image = 2 -> <<6, 128, 0, 128, 0, 128>>
      [] image = TestImage -> <<0, 144, 0, 128, 0, 144>>
      [] OTHER     -> <<0, 128, 0, 128, 0, 128>>

\* Bus.prg_rom[i] for the loaded image.
prg_rom(i) ==
    IF i < Len(Program(rom)) THEN Program(rom)[i + 1]
    ELSE IF i >= PRG_ROM_SIZE - 6 THEN Vectors(rom)[i - (PRG_ROM_SIZE - 7)]
    ELSE IF rom = TestImage /\ i = HandlerIndex THEN Handler[1]
    ELSE 0

\* The index into prg_rom of a CPU address in $8000-$FFFF (bus.rs 96-100).
PrgIndex(address) ==
    LET a == address - 32768 IN
    IF PRG_ROM_SIZE = 16384 /\ a >= 16384 THEN BitAnd(a, 16383) ELSE a

\* BusOperation<u16>::read: little-endian word; only RAM and PRG ROM are
\* decoded.  The second byte's index is not wrapped, so a word at the last
\* index of either array is an out-of-bounds access.
Bus_read16(address) ==
    IF address <= 8191
    THEN LET a == BitAnd(address, 2047) IN
         IF a + 1 > 2047 THEN Panic
         ELSE ArrRead(cpu_ram, a) + 256 * ArrRead(cpu_ram, a + 1)
    ELSE IF address >= 32768
    THEN LET a == PrgIndex(address) IN
         IF a + 1 >= PRG_ROM_SIZE THEN Panic
         ELSE prg_rom(a) + 256 * prg_rom(a + 1)
    ELSE 0

\* The state a bus access can change, with the access's outcome ("ok" or
\* "panic") and the byte a read returns.
BusState ==
    [cpu_ram |-> cpu_ram, ppuctrl |-> ppuctrl, ppumask |-> ppumask,
     ppustatus |-> ppustatus, scroll_data |-> scroll_data,
     scroll_latch |-> scroll_latch, ppuaddr |-> ppuaddr,
     addr_latch |-> addr_latch, nmi_interrupt |-> nmi_interrupt,
     oam_data |-> oam_data, oamaddr |-> oamaddr, vram |-> vram,
     palette_table |-> palette_table, chr_rom |-> chr_rom,
     read_buffer |-> read_buffer,
     strobe |-> strobe, button_index |-> button_index,
     strobe_2 |-> strobe_2, button_index_2 |-> button_index_2,
     toggle_writes |-> toggle_writes, strobed |-> strobed,
     n_reads |-> n_reads, access |-> access,
     outcome |-> "ok", value |-> 0]

CPU_MIRRORING == 2047
PPU_MIRRORING == 8199

\* Mutant: work RAM is indexed by the address as it is.
RamIndex_unmirrored(address) == address

\* The index into cpu_ram of an address in $0000-$1FFF (bus.rs 77, 109).
RamIndex(address) == BitAnd(address, CPU_MIRRORING)

\* Mutant: the mirrors of the PPU registers are not decoded.
Unmirrored_none(address) == address

\* $2008-$3FFF mirror the eight PPU registers (bus.rs 91-93, 132-134).
Unmirrored(address) ==
    IF address >= 8200 /\ address <= 16383
    THEN BitAnd(address, PPU_MIRRORING)
    ELSE address

\* JoypadRegister::get_button_state for the second controller, whose buttons
\* nothing ever sets.
get_button_state_2(index) == IF index >= 8 THEN 1 ELSE 0

\* Mutant: a read of OAMDMA is not refused.
WriteOnly_ppu_only == {8192, 8193, 8195, 8197, 8198}

\* The registers a read panics at (bus.rs 79-86): PPUCTRL, PPUMASK, OAMADDR,
\* PPUSCROLL, PPUADDR and OAMDMA.
WriteOnly == {8192, 8193, 8195, 8197, 8198, 16404}

\* BusOperation<u8>::read
Bus_read(address) ==
    LET a == Unmirrored(address) IN
    CASE a <= 8191 ->
           [BusState EXCEPT !.value = ArrRead(cpu_ram, RamIndex(a))]
      [] a \in WriteOnly ->
           [BusState EXCEPT !.outcome = "panic"]
      [] a = 8194 ->
           [BusState EXCEPT !.value = ppustatus,
                            !.ppustatus = StatusAfterRead,
                            !.addr_latch = PPUADDR_reset_latch,
                            !.scroll_latch = PPUSCROLL_reset_latch,
                            !.toggle_writes = <<>>,
                            !.access = <<>>]
      [] a = 8196 -> [BusState EXCEPT !.value = ArrRead(oam_data, oamaddr)]
      [] a = 8199 ->
           LET r == read_ppudata IN
           IF r.outcome = "ok"
           THEN [BusState EXCEPT
                   !.value = r.value,
                   !.read_buffer = r.read_buffer,
                   !.ppuaddr = r.ppuaddr,
                   !.access = Accessed([kind |-> "read", byte |-> 0])]
           ELSE [BusState EXCEPT !.outcome = "panic"]
      [] a = 16406 ->
           [BusState EXCEPT
              !.value = get_button_state(button_index),
              !.button_index = IF IndexAdvances THEN button_index + 1
                               ELSE button_index,
              !.n_reads = n_reads + 1]
      [] a = 16407 ->
           [BusState EXCEPT
              !.value = get_button_state_2(button_index_2),
              !.button_index_2 =
                  IF ~strobe_2 /\ button_index_2 <= 7
                  THEN button_index_2 + 1 ELSE button_index_2]
      [] a >= 32768 ->
           [BusState EXCEPT !.value = prg_rom(PrgIndex(a))]
      [] OTHER -> BusState

\* Mutant: the copy starts one byte after OAMADDR.
OamdmaStart_next == (oamaddr + 1) % 256

\* The OAM index the first byte of an OAMDMA copy goes to (write_oamdma,
\* line 161).
OamdmaStart == oamaddr

\* PPU::write_oamdma, as a state [oam_data, oamaddr] put through its loop
\* for the n bytes of buffer from the from-th on: each is stored at OAMADDR,
\* which then moves on by one, wrapping.  The run of n iterations is split
\* in two halves, the second continuing from the state the first left
\* (OAMADDR, a u8, is looked at in between so that the first half is
\* evaluated before the second starts).
RECURSIVE write_oamdma(_, _, _, _)
write_oamdma(buffer, from, n, st) ==
    IF n = 1
    THEN [oam_data |-> ArrWrite(st.oam_data, st.oamaddr, buffer[from]),
          oamaddr |-> (st.oamaddr + 1) % 256]
    ELSE LET half == write_oamdma(buffer, from, n \div 2, st) IN
         IF half.oamaddr \in 0..255
         THEN write_oamdma(buffer, from + n \div 2, n - n \div 2, half)
         ELSE half

\* The write of value to $4014 (bus.rs 118-127): 256 bus reads from the page
\* value << 8, then write_oamdma.  A page whose reads would change state
\* ($2000-$40FF) panics on a write-only register before any such read
\* returns, so the bytes are those the reads return in the present state.
Oamdma(value) ==
    LET reads == [i \in 1..256 |-> Bus_read(value * 256 + (i - 1))]
        w == write_oamdma([i \in 1..256 |-> reads[i].value], 1, 256,
                          [oam_data |-> oam_data, oamaddr |-> OamdmaStart])
    IN  IF \E i \in 1..256 : reads[i].outcome = "panic"
        THEN [BusState EXCEPT !.outcome = "panic"]
        ELSE [BusState EXCEPT !.oam_data = w.oam_data,
                              !.oamaddr = w.oamaddr]

\* BusOperation<u8>::write
Bus_write(address, value) ==
    LET a == Unmirrored(address) IN
    CASE a <= 8191 ->
           [BusState EXCEPT
              !.cpu_ram = ArrWrite(cpu_ram, RamIndex(a), value)]
      [] a = 8192 ->
           [BusState EXCEPT !.ppuctrl = value,
                            !.nmi_interrupt = NmiAfterCtrlWrite(value)]
      [] a = 8193 -> [BusState EXCEPT !.ppumask = value]
      [] a = 8195 -> [BusState EXCEPT !.oamaddr = value]
      [] a = 8196 ->
           [BusState EXCEPT
              !.oam_data = ArrWrite(oam_data, oamaddr, value),
              !.oamaddr = (oamaddr + 1) % 256]
      [] a = 8197 ->
           [BusState EXCEPT !.scroll_data = PPUSCROLL_write(value)[1],
                            !.scroll_latch = PPUSCROLL_write(value)[2],
                            !.toggle_writes = Recorded("scroll")]
      [] a = 8198 ->
           [BusState EXCEPT
              !.ppuaddr = PPUADDR_write(value)[1],
              !.addr_latch = PPUADDR_write(value)[2],
              !.toggle_writes = Recorded("addr"),
              !.access = Accessed([kind |-> "addr", byte |-> value])]
      [] a = 8199 ->
           LET w == write_ppudata(value) IN
           IF w.outcome = "ok"
           THEN [BusState EXCEPT
                   !.chr_rom = w.chr_rom,
                   !.vram = w.vram,
                   !.palette_table = w.palette_table,
                   !.ppuaddr = w.ppuaddr,
                   !.access = Accessed([kind |-> "write", byte |-> 0])]
           ELSE [BusState EXCEPT !.outcome = "panic"]
      [] a = 16404 -> Oamdma(value)
      [] a = 16406 ->
           [BusState EXCEPT
              !.strobe = StrobeOf(value),
              !.button_index = IF StrobeOf(value) THEN 0 ELSE button_index,
              !.strobed = IF value % 2 = 1 THEN "high"
                          ELSE IF strobed = "high" THEN "released"
                          ELSE strobed,
              !.n_reads = IF value % 2 = 1 \/ strobed = "high" THEN 0
                          ELSE n_reads]
      [] a = 16407 ->
           [BusState EXCEPT
              !.strobe_2 = StrobeOf(value),
              !.button_index_2 = IF StrobeOf(value) THEN 0
                                 ELSE button_index_2]
      [] a = 8194 \/ a >= 32768 -> [BusState EXCEPT !.outcome = "panic"]
      [] OTHER -> BusState

\* The bus-owned state becomes what an access left in the record x.
Bus_becomes(x) ==
    /\ cpu_ram' = x.cpu_ram
    /\ ppuctrl' = x.ppuctrl
    /\ ppumask' = x.ppumask
    /\ ppustatus' = x.ppustatus
    /\ scroll_data' = x.scroll_data
    /\ scroll_latch' = x.scroll_latch
    /\ ppuaddr' = x.ppuaddr
    /\ addr_latch' = x.addr_latch
    /\ nmi_interrupt' = x.nmi_interrupt
    /\ oam_data' = x.oam_data
    /\ oamaddr' = x.oamaddr
    /\ vram' = x.vram
    /\ palette_table' = x.palette_table
    /\ chr_rom' = x.chr_rom
    /\ read_buffer' = x.read_buffer
    /\ strobe' = x.strobe
    /\ button_index' = x.button_index
    /\ strobe_2' = x.strobe_2
    /\ button_index_2' = x.button_index_2
    /\ toggle_writes' = x.toggle_writes
    /\ strobed' = x.strobed
    /\ n_reads' = x.n_reads
    /\ access' = x.access

----------------------------------------------------------------------------
(* The stack, the instruction table and the instructions the images use.   *)

\* StackOperation<u8>::push on a stack pointer sp and RAM contents ram: the
\* new pointer and RAM, and whether the push returned Ok.  The stack pointer
\* stays below $2000 in every run explored, so the write lands in RAM.
Stack_push(sp, ram, value) ==
    IF sp < 256
    THEN [sp |-> sp, ram |-> ram, ok |-> FALSE]
    ELSE [sp |-> sp - 1, ram |-> ArrWrite(ram, BitAnd(sp, 2047), value),
          ok |-> TRUE]

\* StackOperation<u16>::push: high byte, then low byte, stopping at the
\* first failure.
Stack_push16(sp, ram, value) ==
    LET hi == Stack_push(sp, ram, value \div 256) IN
    IF ~hi.ok THEN hi ELSE Stack_push(hi.sp, hi.ram, value % 256)

\* The stack pointer at which StackOperation<u8>::pull returns Underflow.
PullFails(sp) == sp = INITIAL_STACK_POINTER

\* StackOperation<u8>::pull: the new pointer, the byte read at it, and
\* whether the pull returned Ok.
Stack_pull(sp, ram) ==
    IF PullFails(sp)
    THEN [sp |-> sp, value |-> 0, ok |-> FALSE]
    ELSE LET address == (sp + 1) % 65536 IN
         [sp |-> address, value |-> ArrRead(ram, BitAnd(address, 2047)),
          ok |-> TRUE]

\* StackOperation<u16>::pull: low byte, then high byte, stopping at the
\* first failure.
Stack_pull16(sp, ram) ==
    LET lo == Stack_pull(sp, ram) IN
    IF ~lo.ok THEN lo
    ELSE LET hi == Stack_pull(lo.sp, ram) IN
         IF ~hi.ok THEN hi
         ELSE [sp |-> hi.sp, value |-> lo.value + 256 * hi.value,
               ok |-> TRUE]

\* Stack::get_pointer
get_pointer(sp) == sp % 256

\* Stack::set_pointer: the new pointer, and whether it returned Ok.
set_pointer(sp, value) ==
    IF ~(1 < value /\ value < 255)
    THEN [sp |-> sp, ok |-> FALSE]
    ELSE [sp |-> 256 + value, ok |-> TRUE]

\* Mutant: update keeps the byte as it is.
ProcessorStatus_update_raw(value) == value

\* ProcessorStatus::update
ProcessorStatus_update(value) == BitOr(BitAnd(value, 239), INITIAL_STATE)

\* ProcessorStatus::reset
ProcessorStatus_reset == ProcessorStatus_update(INITIAL_STATE)

\* OPCODES: the entries for the opcodes the images use.
Instruction(byte) ==
    CASE byte = 0   -> [opcode |-> "BRK", mode |-> "Implied", cycles |-> 1]
      [] byte \in {2, 18, 34, 50, 66, 82, 98, 114, 146, 178, 210, 242} ->
           [opcode |-> "KIL", mode |-> "Implied", cycles |-> 0]
      [] byte = 4   -> [opcode |-> "DOP", mode |-> "ZeroPage", cycles |-> 3]
      [] byte = 8   -> [opcode |-> "PHP", mode |-> "Implied", cycles |-> 3]
      [] byte = 12  -> [opcode |-> "TOP", mode |-> "Absolute", cycles |-> 4]
      [] byte = 16  -> [opcode |-> "BPL", mode |-> "Relative", cycles |-> 2]
      [] byte = 20  -> [opcode |-> "DOP", mode |-> "ZeroPageX", cycles |-> 4]
      [] byte = 24  -> [opcode |-> "CLC", mode |-> "Implied", cycles |-> 2]
      [] byte = 28  -> [opcode |-> "TOP", mode |-> "AbsoluteX", cycles |-> 4]
      [] byte = 32  -> [opcode |-> "JSR", mode |-> "Absolute", cycles |-> 6]
      [] byte = 40  -> [opcode |-> "PLP", mode |-> "Implied", cycles |-> 4]
      [] byte = 48  -> [opcode |-> "BMI", mode |-> "Relative", cycles |-> 2]
      [] byte = 56  -> [opcode |-> "SEC", mode |-> "Implied", cycles |-> 2]
      [] byte = 64  -> [opcode |-> "RTI", mode |-> "Implied", cycles |-> 6]
      [] byte = 72  -> [opcode |-> "PHA", mode |-> "Implied", cycles |-> 3]
      [] byte = 76  -> [opcode |-> "JMP", mode |-> "Absolute", cycles |-> 3]
      [] byte = 80  -> [opcode |-> "BVC", mode |-> "Relative", cycles |-> 2]
      [] byte = 88  -> [opcode |-> "CLI", mode |-> "Implied", cycles |-> 2]
      [] byte = 96  -> [opcode |-> "RTS", mode |-> "Implied", cycles |-> 6]
      [] byte = 104 -> [opcode |-> "PLA", mode |-> "Implied", cycles |-> 4]
      [] byte = 105 -> [opcode |-> "ADC", mode |-> "Immediate", cycles |-> 2]
      [] byte = 108 -> [opcode |-> "JMP", mode |-> "Indirect", cycles |-> 5]
      [] byte = 112 -> [opcode |-> "BVS", mode |-> "Relative", cycles |-> 2]
      [] byte = 128 -> [opcode |-> "DOP", mode |-> "Immediate", cycles |-> 2]
      [] byte = 139 -> [opcode |-> "XAA", mode |-> "Immediate", cycles |-> 2]
      [] byte = 141 -> [opcode |-> "STA", mode |-> "Absolute", cycles |-> 4]
      [] byte = 144 -> [opcode |-> "BCC", mode |-> "Relative", cycles |-> 2]
      [] byte = 154 -> [opcode |-> "TXS", mode |-> "Implied", cycles |-> 2]
      [] byte = 160 -> [opcode |-> "LDY", mode |-> "Immediate", cycles |-> 2]
      [] byte = 162 -> [opcode |-> "LDX", mode |-> "Immediate", cycles |-> 2]
      [] byte = 169 -> [opcode |-> "LDA", mode |-> "Immediate", cycles |-> 2]
      [] byte = 173 -> [opcode |-> "LDA", mode |-> "Absolute", cycles |-> 3]
      [] byte = 176 -> [opcode |-> "BCS", mode |-> "Relative", cycles |-> 2]
      [] byte = 177 ->
           [opcode |-> "LDA", mode |-> "IndirectIndexedY", cycles |-> 2]
      [] byte = 185 -> [opcode |-> "LDA", mode |-> "AbsoluteY", cycles |-> 3]
      [] byte = 189 -> [opcode |-> "LDA", mode |-> "AbsoluteX", cycles |-> 3]
      [] byte = 208 -> [opcode |-> "BNE", mode |-> "Relative", cycles |-> 2]
      [] byte = 233 -> [opcode |-> "SBC", mode |-> "Immediate", cycles |-> 2]
      [] byte = 234 -> [opcode |-> "NOP", mode |-> "Implied", cycles |-> 2]
      [] byte = 240 -> [opcode |-> "BEQ", mode |-> "Relative", cycles |-> 2]
      [] OTHER -> [opcode |-> "unmodelled", mode |-> "Implied", cycles |-> 0]

\* AddressingMode::operand_bytes
operand_bytes(mode) ==
    CASE mode \in {"Absolute", "AbsoluteX", "AbsoluteY", "Indirect"} -> 2
      [] mode \in {"Immediate", "IndirectIndexedY", "Relative", "ZeroPage",
                   "ZeroPageX"} -> 1
      [] OTHER -> 0

\* BusOperation<u8>::read as get_operand_address uses it, for the byte
\* alone.  The operands and pointers of the programs explored lie in RAM
\* and PRG ROM, where a read changes nothing.
Read8(address) ==
    LET r == Bus_read(address) IN
    IF r.outcome = "ok" THEN r.value ELSE Panic

\* A u16 plus a u8 index, wrapping; a failed read of the base stays failed.
Indexed(base, index) ==
    IF base = Panic THEN Panic ELSE (base + index) % 65536

\* The word get_operand_address assembles from two byte reads.
from_le_bytes(lo, hi) ==
    IF lo = Panic \/ hi = Panic THEN Panic ELSE lo + 256 * hi

\* Mutant: the high byte is read at p + 1 whatever the low byte of p.
IndirectTarget_no_wrap(p) ==
    IF p = Panic THEN Panic
    ELSE from_le_bytes(Read8(p), Read8((p + 1) % 65536))

\* The word the Indirect arm reads through the pointer p (lines 176-199).
IndirectTarget(p) ==
    IF p = Panic THEN Panic
    ELSE IF p % 256 = 0 THEN Bus_read16(p)
    ELSE from_le_bytes(Read8(p),
                       Read8((p \div 256) * 256 + (((p % 256) + 1) % 256)))

\* The word the IndirectIndexedY arm reads through the zero-page pointer p
\* (lines 201-210).
ZeroPageTarget(p) ==
    IF p = Panic THEN Panic
    ELSE IF p = 0 THEN Bus_read16(p)
    ELSE from_le_bytes(Read8(p), Read8((p + 1) % 256))

\* The element of a set of one element; The({e(v) : v \in {d}}) is e with d
\* for v, with d evaluated once.
The(S) == CHOOSE e \in S : TRUE

\* CPU::get_operand_address, the address it returns, for the modes the
\* images use; Implied has no operand address and panics.
get_operand_address(mode, address) ==
    CASE mode = "Absolute" -> Bus_read16(address)
      [] mode = "AbsoluteX" -> Indexed(Bus_read16(address), register_x)
      [] mode = "AbsoluteY" -> Indexed(Bus_read16(address), register_y)
      [] mode \in {"Immediate", "Relative"} -> address
      [] mode = "Indirect" -> IndirectTarget(Bus_read16(address))
      [] mode = "IndirectIndexedY" ->
           Indexed(ZeroPageTarget(Read8(address)), register_y)
      [] mode = "ZeroPage" -> Read8(address)
      [] mode = "ZeroPageX" ->
           IF Read8(address) = Panic THEN Panic
           ELSE (Read8(address) + register_x) % 256
      [] OTHER -> Panic

\* CPU::get_operand_address, the PageCrossed flag it returns.
page_crossed(mode, address) ==
    CASE mode = "AbsoluteX" ->
           Bus_read16(address) \div 256
               # get_operand_address(mode, address) \div 256
      [] mode = "AbsoluteY" ->
           Bus_read16(address) \div 256
               # get_operand_address(mode, address) \div 256
      [] OTHER -> FALSE

\* A u8 read as i8.
AsSigned(value) == IF value >= 128 THEN value - 256 ELSE value

\* Mutant: the offset is added as an unsigned byte.
move_with_offset_unsigned(pc, value) ==
    [pc |-> (pc + value) % 65536,
     page_crossed |-> pc \div 256 # ((pc + value) % 65536) \div 256]

\* ProgramCounter::move_with_offset: the new counter and the PageCrossed
\* flag.
move_with_offset(pc, value) ==
    LET current_value == (pc + AsSigned(value) + 65536) % 65536 IN
    [pc |-> current_value,
     page_crossed |-> pc \div 256 # current_value \div 256]

\* The conditional branches, and the condition each handler tests.
Branches == {"BCC", "BCS", "BEQ", "BMI", "BNE", "BPL", "BVC", "BVS"}

BranchTaken(opcode, bits) ==
    CASE opcode = "BCC" -> ~Contains(bits, CARRY_FLAG)
      [] opcode = "BCS" -> Contains(bits, CARRY_FLAG)
      [] opcode = "BEQ" -> Contains(bits, ZERO_FLAG)
      [] opcode = "BMI" -> Contains(bits, NEGATIVE_FLAG)
      [] opcode = "BNE" -> ~Contains(bits, ZERO_FLAG)
      [] opcode = "BPL" -> ~Contains(bits, NEGATIVE_FLAG)
      [] opcode = "BVC" -> ~Contains(bits, OVERFLOW_FLAG)
      [] OTHER -> Contains(bits, OVERFLOW_FLAG)

\* set_zero_flag and set_negative_flag of a loaded value.
LoadFlags(bits, value) ==
    SetFlag(SetFlag(bits, ZERO_FLAG, value = 0), NEGATIVE_FLAG, value >= 128)

\* u8 exclusive or, and u8 complement.
BitXor(a, b) == a + b - 2 * BitAnd(a, b)
BitNot(a) == 255 - a

\* Mutant: the carry out of adding the carry flag is dropped.
AdcCarry_first_only(no_borrow_add_carry, borrow_add_carry) ==
    no_borrow_add_carry

\* The carry flag adc_operation sets, from the carries of its two additions.
AdcCarry(no_borrow_add_carry, borrow_add_carry) ==
    borrow_add_carry \/ no_borrow_add_carry

\* CPU::adc_operation on accumulator a and status bits: the accumulator and
\* status it leaves.
adc_operation(a, bits, value) ==
    LET sum1   == a + value
        sum2   == (sum1 % 256) + Bool2Int(Contains(bits, CARRY_FLAG))
        result == sum2 % 256
        carry  == AdcCarry(sum1 > 255, sum2 > 255)
        over   == BitAnd(BitAnd(BitXor(value, result), BitXor(result, a)),
                         128) # 0
    IN  [a |-> result,
         status |-> SetFlag(SetFlag(SetFlag(SetFlag(bits, CARRY_FLAG, carry),
                                            ZERO_FLAG, result = 0),
                                    NEGATIVE_FLAG, result >= 128),
                            OVERFLOW_FLAG, over)]

\* The status byte PHP pushes.
PhpPushedStatus == BitOr(status, B_FLAG)

\* The status byte BRK pushes.
BrkPushedStatus == status

\* Mutant: run returns Ok at XAA as well.
Returns_at_xaa(opcode) == opcode \in {"KIL", "XAA"}

\* The opcodes at which run returns Ok (run, line 117).
Returns(opcode) == opcode = "KIL"

\* The instruction handlers (adc .. xas, each with read_operand_address and
\* get_value inlined).  pc is the program counter after the opcode fetch.
\* The result is the CPU and bus state the handler leaves, the cycle count
\* it returns, and how it ends: "run" (returned), "done" (KIL: run returns
\* Ok), "panic" or "unmodelled".  The handlers discard the result of a push
\* and of set_pointer; they use the result of a pull as the value pulled,
\* so a pull that returns Err ends the instruction with a fatal error.
Execute(ins, pc) ==
    The({
    LET pc2  == (pc + operand_bytes(ins.mode)) % 65536
        base == [pc |-> pc2, a |-> accumulator, x |-> register_x,
                 y |-> register_y, status |-> status,
                 sp |-> stack_pointer, bus |-> BusState,
                 cycles |-> ins.cycles, halt |-> "run"]
    IN
    CASE Returns(ins.opcode) -> [base EXCEPT !.halt = "done"]
      [] ins.opcode = "XAA" -> [base EXCEPT !.pc = pc, !.halt = "panic"]
      [] ins.opcode = "CLI" ->
           [base EXCEPT
              !.status = SetFlag(status, INTERRUPT_DISABLE_FLAG, FALSE)]
      [] ins.opcode = "CLC" ->
           [base EXCEPT !.status = SetFlag(status, CARRY_FLAG, FALSE)]
      [] ins.opcode = "SEC" ->
           [base EXCEPT !.status = SetFlag(status, CARRY_FLAG, TRUE)]
      [] ins.opcode = "PHA" ->
           LET s == Stack_push(stack_pointer, cpu_ram, accumulator) IN
           [base EXCEPT !.sp = s.sp, !.bus.cpu_ram = s.ram]
      [] ins.opcode = "PHP" ->
           LET s == Stack_push(stack_pointer, cpu_ram, PhpPushedStatus) IN
           [base EXCEPT !.sp = s.sp, !.bus.cpu_ram = s.ram]
      [] ins.opcode = "PLA" ->
           LET p == Stack_pull(stack_pointer, cpu_ram) IN
           IF ~p.ok THEN [base EXCEPT !.halt = "panic"]
           ELSE [base EXCEPT !.sp = p.sp, !.a = p.value,
                             !.status = LoadFlags(status, p.value)]
      [] ins.opcode = "PLP" ->
           LET p == Stack_pull(stack_pointer, cpu_ram) IN
           IF ~p.ok THEN [base EXCEPT !.halt = "panic"]
           ELSE [base EXCEPT !.sp = p.sp,
                             !.status = ProcessorStatus_update(p.value)]
      [] ins.opcode = "RTI" ->
           LET p == Stack_pull(stack_pointer, cpu_ram)
               q == Stack_pull16(p.sp, cpu_ram)
           IN  IF ~p.ok THEN [base EXCEPT !.halt = "panic"]
               ELSE IF ~q.ok THEN [base EXCEPT !.sp = q.sp, !.halt = "panic"]
               ELSE [base EXCEPT !.sp = q.sp, !.pc = q.value,
                                 !.status = ProcessorStatus_update(p.value)]
      [] ins.opcode = "BRK" ->
           LET s == Stack_push16(stack_pointer, cpu_ram, pc2)
               t == Stack_push(s.sp, s.ram, BrkPushedStatus)
           IN  [base EXCEPT
                  !.sp = t.sp, !.bus.cpu_ram = t.ram,
                  !.pc = Bus_read16(IRQ_INTERRUPT_VECTOR),
                  !.status = SetFlag(status, INTERRUPT_DISABLE_FLAG, TRUE)]
      [] ins.opcode = "TXS" ->
           [base EXCEPT !.sp = set_pointer(stack_pointer, register_x).sp]
      [] ins.opcode = "RTS" ->
           LET q == Stack_pull16(stack_pointer, cpu_ram) IN
           IF ~q.ok THEN [base EXCEPT !.sp = q.sp, !.halt = "panic"]
           ELSE [base EXCEPT !.sp = q.sp, !.pc = (q.value + 1) % 65536]
      [] ins.opcode \in {"JMP", "JSR", "STA", "LDA", "NOP", "DOP", "TOP"}
         /\ addr = Panic ->
           [base EXCEPT !.halt = "panic"]
      [] ins.opcode \in Branches ->
           The({IF r.outcome # "ok"
                THEN [base EXCEPT !.bus = r, !.halt = r.outcome]
                ELSE IF BranchTaken(ins.opcode, status)
                THEN LET m == move_with_offset(pc2, r.value) IN
                     [base EXCEPT
                        !.bus = r, !.pc = m.pc,
                        !.cycles = ins.cycles
                                   + (IF m.page_crossed THEN 2 ELSE 1)]
                ELSE [base EXCEPT !.bus = r]
                : r \in {Bus_read(addr)}})
      [] ins.opcode = "NOP" ->
           The({[base EXCEPT !.bus = r,
                             !.halt = IF r.outcome = "ok" THEN "run"
                                      ELSE r.outcome,
                             !.cycles = ins.cycles + Bool2Int(crossed)]
                : r \in {Bus_read(addr)}})
      [] ins.opcode = "DOP" ->
           [base EXCEPT !.pc = (pc2 + 1) % 65536,
                        !.cycles = ins.cycles
                                   + Bool2Int(crossed)]
      [] ins.opcode = "TOP" ->
           [base EXCEPT !.cycles = ins.cycles
                                   + Bool2Int(crossed)]
      [] ins.opcode = "JMP" -> [base EXCEPT !.pc = addr]
      [] ins.opcode = "JSR" ->
           LET s == Stack_push16(stack_pointer, cpu_ram,
                                 (pc2 + 65535) % 65536) IN
           [base EXCEPT !.pc = addr, !.sp = s.sp, !.bus.cpu_ram = s.ram]
      [] ins.opcode = "STA" ->
           The({[base EXCEPT !.bus = w,
                             !.halt = IF w.outcome = "ok" THEN "run"
                                      ELSE w.outcome]
                : w \in {Bus_write(addr, accumulator)}})
      [] ins.opcode \in {"LDA", "LDX", "LDY", "ADC", "SBC"} ->
           The({
           LET sum == adc_operation(accumulator, status,
                                    IF ins.opcode = "SBC"
                                    THEN BitNot(r.value) ELSE r.value)
               n == ins.cycles + Bool2Int(crossed)
           IN  IF r.outcome # "ok"
               THEN [base EXCEPT !.bus = r, !.halt = r.outcome]
               ELSE CASE ins.opcode = "LDA" ->
                           [base EXCEPT
                              !.bus = r, !.a = r.value, !.cycles = n,
                              !.status = LoadFlags(status, r.value)]
                      [] ins.opcode = "LDX" ->
                           [base EXCEPT
                              !.bus = r, !.x = r.value, !.cycles = n,
                              !.status = LoadFlags(status, r.value)]
                      [] ins.opcode = "LDY" ->
                           [base EXCEPT
                              !.bus = r, !.y = r.value, !.cycles = n,
                              !.status = LoadFlags(status, r.value)]
                      [] OTHER ->
                           [base EXCEPT !.bus = r, !.a = sum.a,
                                        !.cycles = n,
                                        !.status = sum.status]
           : r \in {Bus_read(addr)}})
      [] OTHER -> [base EXCEPT !.halt = "unmodelled"]
    : addr \in {get_operand_address(ins.mode, pc)},
      crossed \in {page_crossed(ins.mode, pc)}})

\* The status byte the NMI sequence pushes (nmi_interrupt, lines 965-967).
NmiPushedStatus == SetFlag(SetFlag(status, B_FLAG, FALSE), B_FLAG_2, TRUE)

\* The stack after the NMI sequence's two pushes, whose results are
\* discarded (nmi_interrupt, lines 969-970).
NmiPushes ==
    LET s == Stack_push16(stack_pointer, cpu_ram, program_counter) IN
    Stack_push(s.sp, s.ram, NmiPushedStatus)

\* The cycles the NMI sequence ticks the bus by (nmi_interrupt, line 973).
NmiCycles == 2

\* Mutant: the run loop ticks the bus before it executes the instruction.
PhaseAfter_tick_first(ph) ==
    CASE ph = "poll" -> "callback"
      [] ph = "callback" -> "tick"
      [] ph = "tick" -> "step"
      [] OTHER -> "poll"

\* The order of the steps of one iteration of CPU::run (lines 43-131).
PhaseAfter(ph) ==
    CASE ph = "poll" -> "callback"
      [] ph = "callback" -> "step"
      [] ph = "step" -> "tick"
      [] OTHER -> "poll"

----------------------------------------------------------------------------
(* Power-on state: Bus::new, PPU::new, Controller::new, CPU::new.          *)

PowerOn ==
    /\ ppuctrl = 0 /\ ppumask = 0 /\ ppustatus = 0
    /\ oam_data = EmptyArr
    /\ scroll_data = <<0, 0>> /\ scroll_latch = FALSE
    /\ ppuaddr = 0 /\ addr_latch = TRUE
    /\ scanline = 0 /\ cycles = 0 /\ nmi_interrupt = FALSE
    /\ cpu_ram = EmptyArr /\ bus_cycles = 0 /\ frames = 0
    /\ oamaddr = 0 /\ vram = EmptyArr /\ palette_table = EmptyArr
    /\ chr_rom = EmptyArr /\ read_buffer = 0
    /\ buttons = 0 /\ strobe = FALSE /\ button_index = 0
    /\ strobe_2 = FALSE /\ button_index_2 = 0
    /\ accumulator = 0 /\ register_x = 0 /\ register_y = 0
    /\ program_counter = 0 /\ status = 36 /\ stack_pointer = 509
    /\ phase = "idle" /\ passed_cycles = 0 /\ charged = 0
    /\ op = "new" /\ ret = 0
    /\ toggle_writes = <<>> /\ strobed = "never" /\ n_reads = 0
    /\ access = <<>>
    /\ bus_addr = 0 /\ n_bus = 0

----------------------------------------------------------------------------
(* Operations on the bus and the PPU, as called by a host or by the CPU.   *)

\* Bus::tick(c)
Tick(c) ==
    /\ frames < MaxFrames
    /\ Bus_tick(nmi_interrupt, c)
    /\ op' = "tick" /\ ret' = 0
    /\ UNCHANGED <<ppuctrl, ppumask, oam_data, scroll_data, scroll_latch,
                   ppuaddr, addr_latch, cpu_ram>>
    /\ UNCHANGED <<ctlVars, cpuVars, memVars,
                   ctl2Vars, hostVars, toggle_writes, strobed, n_reads>>

\* Bus::poll_nmi_interrupt
PollNmi ==
    /\ ret' = Bool2Int(poll_nmi_interrupt)
    /\ nmi_interrupt' = FALSE
    /\ op' = "poll_nmi"
    /\ UNCHANGED <<ppuctrl, ppumask, ppustatus, oam_data, scroll_data,
                   scroll_latch, ppuaddr, addr_latch, scanline, cycles>>
    /\ UNCHANGED <<busVars, ctlVars, cpuVars, memVars,
                   ctl2Vars, hostVars, toggle_writes, strobed, n_reads>>

\* A write of value to $2000: PPU::write_ppuctrl
WritePpuctrl(value) ==
    /\ ppuctrl' = value
    /\ nmi_interrupt' = NmiAfterCtrlWrite(value)
    /\ op' = "write_ppuctrl" /\ ret' = 0
    /\ UNCHANGED <<ppumask, ppustatus, oam_data, scroll_data, scroll_latch,
                   ppuaddr, addr_latch, scanline, cycles>>
    /\ UNCHANGED <<busVars, ctlVars, cpuVars, memVars,
                   ctl2Vars, hostVars, toggle_writes, strobed, n_reads>>

\* A read of $2002: PPU::read_ppustatus
ReadPpustatus ==
    /\ ret' = ppustatus
    /\ ppustatus' = StatusAfterRead
    /\ addr_latch' = PPUADDR_reset_latch
    /\ scroll_latch' = PPUSCROLL_reset_latch
    /\ op' = "read_ppustatus"
    /\ toggle_writes' = <<>>
    /\ access' = <<>>
    /\ UNCHANGED <<ppuctrl, ppumask, oam_data, scroll_data, ppuaddr,
                   scanline, cycles, nmi_interrupt>>
    /\ UNCHANGED <<busVars, ctlVars, cpuVars, oamaddr, vram, palette_table,
                   chr_rom, read_buffer, mirroring,
                   ctl2Vars, hostVars, strobed, n_reads>>

\* A write of value to $2005: PPU::write_ppuscroll
WritePpuscroll(value) ==
    /\ scroll_data' = PPUSCROLL_write(value)[1]
    /\ scroll_latch' = PPUSCROLL_write(value)[2]
    /\ op' = "write_ppuscroll" /\ ret' = value
    /\ toggle_writes' = Recorded("scroll")
    /\ UNCHANGED <<ppuctrl, ppumask, ppustatus, oam_data, ppuaddr, addr_latch,
                   scanline, cycles, nmi_interrupt>>
    /\ UNCHANGED <<busVars, ctlVars, cpuVars, memVars,
                   ctl2Vars, hostVars, strobed, n_reads>>

\* A write of value to $2006: PPU::write_ppuaddr
WritePpuaddr(value) ==
    /\ ppuaddr' = PPUADDR_write(value)[1]
    /\ addr_latch' = PPUADDR_write(value)[2]
    /\ op' = "write_ppuaddr" /\ ret' = value
    /\ toggle_writes' = Recorded("addr")
    /\ access' = Accessed([kind |-> "addr", byte |-> value])
    /\ UNCHANGED <<ppuctrl, ppumask, ppustatus, oam_data, scroll_data,
                   scroll_latch, scanline, cycles, nmi_interrupt>>
    /\ UNCHANGED <<busVars, ctlVars, cpuVars, oamaddr, vram, palette_table,
                   chr_rom, read_buffer, mirroring,
                   ctl2Vars, hostVars, strobed, n_reads>>

\* The PPUDATA accesses in the access record.
DataAccesses == Cardinality({i \in DOMAIN access : access[i].kind # "addr"})

\* The bytes that hold a non-zero value in the three PPU memories.
CellsUsed(c, v, p) ==
    Cardinality(DOMAIN c) + Cardinality(DOMAIN v) + Cardinality(DOMAIN p)

\* A read of $2007: PPU::read_ppudata.  A read that panics ends the program:
\* it is recorded (ret = Panic) and leaves the state as it was.
ReadPpudata ==
    /\ DataAccesses < MaxData
    /\ LET r == read_ppudata IN
       IF r.outcome = "ok"
       THEN /\ ret' = r.value
            /\ read_buffer' = r.read_buffer
            /\ ppuaddr' = r.ppuaddr
            /\ access' = Accessed([kind |-> "read", byte |-> 0])
       ELSE /\ ret' = Panic
            /\ UNCHANGED <<read_buffer, ppuaddr, access>>
    /\ op' = "read_ppudata"
    /\ UNCHANGED <<ppuctrl, ppumask, ppustatus, oam_data, scroll_data,
                   scroll_latch, addr_latch, scanline, cycles, nmi_interrupt,
                   oamaddr, vram, palette_table, chr_rom, mirroring>>
    /\ UNCHANGED <<busVars, ctlVars, ctl2Vars, hostVars, cpuVars, toggle_writes,
                   strobed, n_reads>>

\* A write of value to $2007: PPU::write_ppudata
WritePpudata(value) ==
    /\ DataAccesses < MaxData
    /\ LET w == write_ppudata(value) IN
       /\ CellsUsed(w.chr_rom, w.vram, w.palette_table) <= MaxCells
       /\ IF w.outcome = "ok"
          THEN /\ chr_rom' = w.chr_rom
               /\ vram' = w.vram
               /\ palette_table' = w.palette_table
               /\ ppuaddr' = w.ppuaddr
               /\ ret' = value
               /\ access' = Accessed([kind |-> "write", byte |-> 0])
          ELSE /\ ret' = Panic
               /\ UNCHANGED <<chr_rom, vram, palette_table, ppuaddr, access>>
    /\ op' = "write_ppudata"
    /\ UNCHANGED <<ppuctrl, ppumask, ppustatus, oam_data, scroll_data,
                   scroll_latch, addr_latch, scanline, cycles, nmi_interrupt,
                   oamaddr, read_buffer, mirroring>>
    /\ UNCHANGED <<busVars, ctlVars, ctl2Vars, hostVars, cpuVars, toggle_writes,
                   strobed, n_reads>>

\* A write of value to $2001: PPU::write_ppumask
WritePpumask(value) ==
    /\ ppumask' = value
    /\ op' = "write_ppumask" /\ ret' = value
    /\ UNCHANGED <<ppuctrl, ppustatus, oam_data, scroll_data, scroll_latch,
                   ppuaddr, addr_latch, scanline, cycles, nmi_interrupt>>
    /\ UNCHANGED <<busVars, ctlVars, ctl2Vars, cpuVars, memVars, hostVars,
                   toggle_writes, strobed, n_reads>>

\* A write of value to $2003: PPU::write_oamaddr
WriteOamaddr(value) ==
    /\ oamaddr' = value
    /\ op' = "write_oamaddr" /\ ret' = value
    /\ UNCHANGED <<ppuVars, busVars, ctlVars, ctl2Vars, cpuVars, hostVars,
                   vram, palette_table, chr_rom, read_buffer, mirroring,
                   access, toggle_writes, strobed, n_reads>>

\* A write of value to $2004: PPU::write_oamdata
WriteOamdata(value) ==
    /\ Cardinality(DOMAIN ArrWrite(oam_data, oamaddr, value)) <= MaxOam
    /\ oam_data' = ArrWrite(oam_data, oamaddr, value)
    /\ oamaddr' = (oamaddr + 1) % 256
    /\ op' = "write_oamdata" /\ ret' = value
    /\ UNCHANGED <<ppuctrl, ppumask, ppustatus, scroll_data, scroll_latch,
                   ppuaddr, addr_latch, scanline, cycles, nmi_interrupt>>
    /\ UNCHANGED <<busVars, ctlVars, ctl2Vars, cpuVars, hostVars,
                   vram, palette_table, chr_rom, read_buffer, mirroring,
                   access, toggle_writes, strobed, n_reads>>

\* An 8-bit read at a bus address by the host: BusOperation<u8>::read.  A
\* read that panics is recorded (ret = Panic) and leaves the state as it
\* was.
BusRead(address) ==
    /\ n_bus < MaxBus
    /\ LET r == Bus_read(address) IN
       /\ Bus_becomes(IF r.outcome = "ok" THEN r ELSE BusState)
       /\ ret' = IF r.outcome = "ok" THEN r.value ELSE Panic
    /\ op' = "bus_read"
    /\ bus_addr' = address /\ n_bus' = n_bus + 1
    /\ UNCHANGED <<scanline, cycles, bus_cycles, frames, buttons, mirroring,
                   cpuVars>>

\* An 8-bit write of value at a bus address by the host:
\* BusOperation<u8>::write
BusWrite(address, value) ==
    /\ n_bus < MaxBus
    /\ LET w == Bus_write(address, value) IN
       /\ Bus_becomes(IF w.outcome = "ok" THEN w ELSE BusState)
       /\ ret' = IF w.outcome = "ok" THEN value ELSE Panic
    /\ op' = "bus_write"
    /\ bus_addr' = address /\ n_bus' = n_bus + 1
    /\ UNCHANGED <<scanline, cycles, bus_cycles, frames, buttons, mirroring,
                   cpuVars>>

\* A 16-bit read at a bus address by the host: BusOperation<u16>::read.  A
\* read that panics is recorded (ret = Panic) and leaves the state as it
\* was.
BusRead16(address) ==
    /\ n_bus < MaxBus
    /\ ret' = Bus_read16(address)
    /\ op' = "bus_read16"
    /\ bus_addr' = address /\ n_bus' = n_bus + 1
    /\ UNCHANGED <<toggle_writes, strobed, n_reads>>
    /\ UNCHANGED <<ppuVars, busVars, ctlVars, ctl2Vars, memVars, cpuVars>>

\* Controller::set_button_status(button, pressed), called by the host.
SetButtonStatus(button, pressed) ==
    /\ buttons' = SetFlag(buttons, button, pressed)
    /\ op' = "set_button_status" /\ ret' = 0
    /\ UNCHANGED <<strobe, button_index, strobed, n_reads, toggle_writes>>
    /\ UNCHANGED <<ppuVars, busVars, cpuVars, memVars, ctl2Vars, hostVars>>

\* A read of the controller port: Controller::read
ControllerRead ==
    /\ n_reads < MaxReads
    /\ ret' = get_button_state(button_index)
    /\ button_index' = IF IndexAdvances THEN button_index + 1 ELSE button_index
    /\ op' = "controller_read"
    /\ n_reads' = n_reads + 1
    /\ UNCHANGED <<buttons, strobe, strobed, toggle_writes>>
    /\ UNCHANGED <<ppuVars, busVars, cpuVars, memVars, ctl2Vars, hostVars>>

\* A write to the controller port: Controller::write
ControllerWrite(value) ==
    /\ strobe' = StrobeOf(value)
    /\ button_index' = IF StrobeOf(value) THEN 0 ELSE button_index
    /\ op' = "controller_write" /\ ret' = value
    /\ strobed' = IF value % 2 = 1 THEN "high"
                  ELSE IF strobed = "high" THEN "released" ELSE strobed
    /\ n_reads' = IF value % 2 = 1 \/ strobed = "high" THEN 0 ELSE n_reads
    /\ UNCHANGED <<buttons, toggle_writes>>
    /\ UNCHANGED <<ppuVars, busVars, cpuVars, memVars, ctl2Vars, hostVars>>

----------------------------------------------------------------------------
(* CPU::run, one action per step of its loop, after the host has reset the *)
(* CPU (emulator/src/main.rs).  The loop is followed until the frame       *)
(* callback has run MaxFrames times.                                       *)

\* Mutant: reset leaves the stack pointer as it is.
Stack_reset_kept == stack_pointer

\* The stack pointer after Stack::reset.
Stack_reset == INITIAL_STACK_POINTER

\* CPU::reset_interrupt
reset_interrupt ==
    /\ Bus_read16(RESET_INTERRUPT_VECTOR) # Panic
    /\ program_counter' = Bus_read16(RESET_INTERRUPT_VECTOR)
    /\ accumulator' = 0 /\ register_x' = 0 /\ register_y' = 0
    /\ status' = ProcessorStatus_reset
    /\ stack_pointer' = Stack_reset
    /\ op' = "reset" /\ ret' = 0
    /\ UNCHANGED <<ppuVars, busVars, ctlVars,
                   ctl2Vars, hostVars, memVars, rom, code, passed_cycles,
                   charged,
                   toggle_writes, strobed, n_reads>>

\* CPU::reset_interrupt, then the call of CPU::run.
Start ==
    /\ phase = "idle"
    /\ reset_interrupt
    /\ phase' = "poll"

\* CPU::reset_interrupt, called by the host after CPU::run has returned.
Reset ==
    /\ phase = "done"
    /\ reset_interrupt
    /\ phase' = "reset"

\* run, lines 44-46: poll the NMI flag and, if it was set, nmi_interrupt.
RunPollNmi ==
    /\ phase = "poll" /\ frames < MaxFrames
    /\ phase' = PhaseAfter("poll")
    /\ IF poll_nmi_interrupt
       THEN /\ cpu_ram' = NmiPushes.ram
            /\ stack_pointer' = NmiPushes.sp
            /\ status' = SetFlag(status, INTERRUPT_DISABLE_FLAG, TRUE)
            /\ Bus_tick(FALSE, NmiCycles)
            /\ program_counter' = Bus_read16(NMI_INTERRUPT_VECTOR)
            /\ charged' = charged + NmiCycles
            /\ op' = "nmi" /\ ret' = 1
       ELSE /\ nmi_interrupt' = FALSE
            /\ op' = "poll" /\ ret' = 0
            /\ UNCHANGED <<cpu_ram, stack_pointer, status, program_counter,
                           charged, bus_cycles, cycles, scanline, ppustatus,
                           frames>>
    /\ UNCHANGED <<ppuctrl, ppumask, oam_data, scroll_data, scroll_latch,
                   ppuaddr, addr_latch, ctlVars,
                   ctl2Vars, hostVars, memVars, accumulator, register_x,
                   register_y, rom, code, passed_cycles, toggle_writes,
                   strobed,
                   n_reads>>

\* run, line 48: the host's per-instruction callback, which the emulator
\* passes as a no-op.
RunCallback ==
    /\ phase = "callback" /\ frames < MaxFrames
    /\ phase' = PhaseAfter("callback")
    /\ op' = "callback" /\ ret' = 0
    /\ UNCHANGED <<ppuVars, busVars, ctlVars,
                   ctl2Vars, hostVars, memVars, accumulator, register_x,
                   register_y, program_counter, status, stack_pointer, rom,
                   code,
                   passed_cycles, charged, toggle_writes, strobed, n_reads>>

\* NON_READABLE_ADDRESSES (trace.rs, lines 6-8).
NON_READABLE_ADDRESSES ==
    {8192, 8193, 8194, 8195, 8196, 8197, 8198, 8199, 16404, 16406, 16407}

\* trace (trace.rs), as the bus accesses it makes for the instruction at the
\* program counter: the opcode fetch, get_operand_address for a mode with an
\* operand address, and the read of the operand address unless it is one of
\* NON_READABLE_ADDRESSES.  The reads of the operand bytes for the hex dump
\* follow; in the programs traced they are reads of PRG ROM.
trace ==
    LET opcode == Instruction(Read8(program_counter))
        addr   == get_operand_address(opcode.mode,
                                      (program_counter + 1) % 65536)
    IN  IF opcode.mode \in {"Immediate", "Implied", "Relative"}
        THEN BusState
        ELSE IF addr = Panic THEN [BusState EXCEPT !.outcome = "panic"]
        ELSE IF addr \notin NON_READABLE_ADDRESSES THEN Bus_read(addr)
        ELSE BusState

\* run, line 48, with the callback the nestest harness and the commented-out
\* line of the emulator pass: |cpu| println!("{}", trace(cpu)).
RunTrace ==
    /\ phase = "callback" /\ frames < MaxFrames
    /\ Bus_becomes(trace)
    /\ phase' = IF trace.outcome = "ok" THEN PhaseAfter("callback")
                ELSE trace.outcome
    /\ op' = "trace" /\ ret' = 0
    /\ UNCHANGED <<scanline, cycles, bus_cycles, frames, buttons, mirroring,
                   hostVars, accumulator, register_x, register_y,
                   program_counter, status, stack_pointer, rom, code,
                   passed_cycles, charged>>

\* run, lines 49-129: next_instruction and the dispatch to the handler.
RunStep ==
    /\ phase = "step" /\ frames < MaxFrames
    /\ \E fetch \in {Bus_read(program_counter)} :
       \E x \in {IF fetch.outcome = "ok"
                 THEN Execute(Instruction(fetch.value),
                              (program_counter + 1) % 65536)
                 ELSE [pc |-> program_counter, a |-> accumulator,
                       x |-> register_x, y |-> register_y,
                       status |-> status, sp |-> stack_pointer,
                       bus |-> BusState, cycles |-> 0,
                       halt |-> fetch.outcome]} :
           /\ program_counter' = x.pc
           /\ accumulator' = x.a
           /\ register_x' = x.x
           /\ register_y' = x.y
           /\ status' = x.status
           /\ stack_pointer' = x.sp
           /\ Bus_becomes(x.bus)
           /\ passed_cycles' = x.cycles
           /\ charged' = IF x.halt = "run" THEN charged + x.cycles
                         ELSE charged
           /\ phase' = IF x.halt = "run" THEN PhaseAfter("step") ELSE x.halt
           /\ op' = "step" /\ ret' = fetch.value
    /\ UNCHANGED <<scanline, cycles, bus_cycles, frames, buttons, mirroring,
                   hostVars, rom, code>>

\* run, line 130: bus.tick(passed_cycles).
RunTick ==
    /\ phase = "tick" /\ frames < MaxFrames
    /\ phase' = PhaseAfter("tick")
    /\ Bus_tick(nmi_interrupt, passed_cycles)
    /\ op' = "run_tick" /\ ret' = 0
    /\ UNCHANGED <<ppuctrl, ppumask, oam_data, scroll_data, scroll_latch,
                   ppuaddr, addr_latch, cpu_ram, ctlVars,
                   ctl2Vars, hostVars, memVars, accumulator,
                   register_x, register_y, program_counter, status,
                   stack_pointer, rom, code, passed_cycles, charged,
                   toggle_writes, strobed, n_reads>>

----------------------------------------------------------------------------
(* The first interpreter (src/cpu.rs): a CPU of A, X, status and program   *)
(* counter that interprets a byte vector.  It is modelled on the variables *)
(* accumulator (register_a), register_x, status, program_counter and code  *)
(* (the program).                                                          *)

\* Mutant: the increment stops at 255.
wrapping_add_saturating(a, b) == IF a + b > 255 THEN 255 ELSE a + b

\* u8::wrapping_add
wrapping_add(a, b) == (a + b) % 256

\* CPU::set_zero_and_negative_flags: the status it leaves.
set_zero_and_negative_flags(bits, result) ==
    LET z == IF result = 0 THEN BitOr(bits, 2) ELSE BitAnd(bits, 253) IN
    IF BitAnd(result, 128) # 0 THEN BitOr(z, 128) ELSE BitAnd(z, 127)

\* CPU::new
New ==
    /\ phase = "idle"
    /\ accumulator' = 0 /\ register_x' = 0 /\ status' = 0
    /\ program_counter' = 0
    /\ phase' = "new"
    /\ op' = "new" /\ ret' = 0
    /\ UNCHANGED <<ppuVars, memVars, busVars, ctlVars, ctl2Vars, hostVars,
                   register_y, stack_pointer, rom, code, passed_cycles,
                   charged, toggle_writes, strobed, n_reads>>

\* CPU::interpret, line 21: the call, on a new CPU or on one that has
\* interpreted before.
Interpret ==
    /\ phase \in {"new", "returned"}
    /\ program_counter' = 0
    /\ phase' = "interpret"
    /\ op' = "interpret" /\ ret' = 0
    /\ UNCHANGED <<ppuVars, memVars, busVars, ctlVars, ctl2Vars, hostVars,
                   accumulator, register_x, status,
                   register_y, stack_pointer, rom, code, passed_cycles,
                   charged, toggle_writes, strobed, n_reads>>

\* CPU::interpret, lines 23-41: one iteration of the loop.  next fails with
\* InvalidPC past the end of the program, and an opcode other than the four
\* reaches todo!().
InterpretStep ==
    /\ phase = "interpret"
    /\ LET pc     == program_counter
           opcode == IF pc < Len(code) THEN code[pc + 1] ELSE Panic
           x      == wrapping_add(register_x, 1)
       IN  CASE opcode = Panic ->
                  /\ phase' = "error"
                  /\ UNCHANGED <<accumulator, register_x, status,
                                 program_counter>>
             [] opcode = 169 /\ pc + 1 >= Len(code) ->
                  /\ phase' = "error"
                  /\ program_counter' = pc + 1
                  /\ UNCHANGED <<accumulator, register_x, status>>
             [] opcode = 169 /\ pc + 1 < Len(code) ->
                  /\ accumulator' = code[pc + 2]
                  /\ status' =
                         set_zero_and_negative_flags(status, code[pc + 2])
                  /\ program_counter' = pc + 2
                  /\ phase' = "interpret"
                  /\ UNCHANGED register_x
             [] opcode = 170 ->
                  /\ register_x' = accumulator
                  /\ status' =
                         set_zero_and_negative_flags(status, accumulator)
                  /\ program_counter' = pc + 1
                  /\ phase' = "interpret"
                  /\ UNCHANGED accumulator
             [] opcode = 232 ->
                  /\ register_x' = x
                  /\ status' = set_zero_and_negative_flags(status, x)
                  /\ program_counter' = pc + 1
                  /\ phase' = "interpret"
                  /\ UNCHANGED accumulator
             [] opcode = 0 ->
                  /\ phase' = "returned"
                  /\ program_counter' = pc + 1
                  /\ UNCHANGED <<accumulator, register_x, status>>
             [] OTHER ->
                  /\ phase' = "panic"
                  /\ program_counter' = pc + 1
                  /\ UNCHANGED <<accumulator, register_x, status>>
    /\ op' = "interpret_step"
    /\ ret' = IF program_counter < Len(code) THEN code[program_counter + 1]
              ELSE 0
    /\ UNCHANGED <<ppuVars, memVars, busVars, ctlVars, ctl2Vars, hostVars,
                   register_y, stack_pointer, rom, code, passed_cycles,
                   charged, toggle_writes, strobed, n_reads>>

----------------------------------------------------------------------------
(* Specifications.                                                         *)

Init ==
    /\ PowerOn
    /\ rom = 1 /\ code = <<>>
    /\ mirroring = "Horizontal"

Next ==
    \/ \E c \in TickCycles : Tick(c)
    \/ PollNmi
    \/ \E v \in CtrlBytes : WritePpuctrl(v)
    \/ ReadPpustatus

Spec == Init /\ [][Next]_vars

\* The PPU registers with their write latches, time passing in coarse ticks.
NextReg ==
    \/ \E c \in CoarseCycles : Tick(c)
    \/ ReadPpustatus
    \/ \E v \in RegBytes : WritePpuscroll(v)
    \/ \E v \in RegBytes : WritePpuaddr(v)

SpecReg == Init /\ [][NextReg]_vars

\* One controller: the host presses and releases buttons, the program
\* strobes and reads the port.
NextCtl ==
    \/ \E b \in Buttons, pressed \in BOOLEAN : SetButtonStatus(b, pressed)
    \/ ControllerRead
    \/ \E v \in PortBytes : ControllerWrite(v)

SpecCtl == Init /\ [][NextCtl]_vars

\* PPUADDR / PPUDATA traffic over CHR, nametable, unmapped and palette
\* addresses, with both increments.
NextMem ==
    \/ \E v \in StepBytes : WritePpuctrl(v)
    \/ \E v \in AddrBytes(MemPages) : WritePpuaddr(v)
    \/ \E v \in DataBytes \ {0} : WritePpudata(v)
    \/ ReadPpudata

SpecMem == Init /\ [][NextMem]_vars

\* PPUADDR / PPUDATA traffic over the four nametables, under each mirroring
\* mode.
InitMirror ==
    /\ PowerOn
    /\ rom = 1 /\ code = <<>>
    /\ mirroring \in Mirrorings

NextMirror ==
    \/ \E v \in AddrBytes(TablePages) : WritePpuaddr(v)
    \/ \E v \in DataBytes : WritePpudata(v)
    \/ ReadPpudata

SpecMirror == InitMirror /\ [][NextMirror]_vars

\* Sprite 0 and the PPUMASK sprite bit, time passing in coarse ticks.
NextSprite ==
    \/ \E c \in CoarseCycles : Tick(c)
    \/ \E v \in MaskBytes : WritePpumask(v)
    \/ \E v \in OamAddrBytes : WriteOamaddr(v)
    \/ \E v \in OamBytes : WriteOamdata(v)

SpecSprite == Init /\ [][NextSprite]_vars

\* The host writes work RAM and OAMADDR and starts OAM DMA through the bus.
NextDma ==
    \/ \E a \in RamAddrs : BusRead(a)
    \/ \E a \in RamAddrs, v \in DataBytes : BusWrite(a, v)
    \/ \E v \in OamStartBytes : BusWrite(8195, v)
    \/ \E v \in DmaPages : BusWrite(16404, v)
    \/ BusRead(8196)

SpecDma == Init /\ [][NextDma]_vars

\* The host accesses the PPU registers through their mirrors.
NextIo ==
    \/ \E a \in MirrorAddrs : BusRead(a)
    \/ \E a \in MirrorAddrs, v \in IoBytes : BusWrite(a, v)

SpecIo == InitMirror /\ [][NextIo]_vars

\* The host reads and writes bytes and reads words over the bus, at
\* addresses the bus serves and at addresses it refuses.
NextFault ==
    \/ \E a \in ReadPorts \cup RamAddrs : BusRead(a)
    \/ \E a \in RamAddrs, v \in DataBytes : BusWrite(a, v)
    \/ \E v \in IoBytes : BusWrite(8192, v)
    \/ \E v \in IoBytes : BusWrite(8194, v)
    \/ \E a \in RomAddrs, v \in IoBytes : BusWrite(a, v)
    \/ \E a \in WordAddrs : BusRead16(a)

SpecFault == Init /\ [][NextFault]_vars

\* The emulator's run on each cartridge image.
InitRun ==
    /\ PowerOn
    /\ rom \in RomImages /\ code = <<>>
    /\ mirroring = "Horizontal"

NextRun ==
    \/ Start
    \/ RunPollNmi
    \/ RunCallback
    \/ RunStep
    \/ RunTick

SpecRun == InitRun /\ [][NextRun]_vars

\* The programs of n instructions drawn from ops, closed by KIL.
RECURSIVE Programs(_, _)
Programs(ops, n) ==
    IF n = 0 THEN {<<2>>}
    ELSE {o \o p : o \in ops, p \in Programs(ops, n - 1)}

\* The emulator's run on the test image, for each program of a family.
InitCpu(programs) ==
    /\ PowerOn
    /\ rom = TestImage
    /\ code \in programs
    /\ mirroring = "Horizontal"

NextCpu ==
    \/ Start
    \/ RunPollNmi
    \/ RunCallback
    \/ RunStep
    \/ RunTick
    \/ Reset

SpecStack == InitCpu(Programs(StackOps, MaxProgram)) /\ [][NextCpu]_vars

SpecFlags == InitCpu(Programs(FlagOps, MaxProgram)) /\ [][NextCpu]_vars

SpecHalt == InitCpu(Programs(HaltOps, MaxProgram)) /\ [][NextCpu]_vars

\* The arithmetic programs: LDA #a; SEC or CLC; ADC #m or SBC #m; KIL.
AluPrograms ==
    {<<169, a, c, i, m, 2>> : a \in AluBytes, c \in {56, 24},
                             i \in {105, 233}, m \in AluBytes}

SpecAlu == InitCpu(AluPrograms) /\ [][NextCpu]_vars

\* The run loop on programs that can jump out of their code: it is followed
\* for MaxCharged cycles.
NextBounded ==
    \/ Start
    \/ RunPollNmi
    \/ RunCallback
    \/ charged < MaxCharged /\ RunStep
    \/ RunTick
    \/ Reset

\* The branch programs: prefix; branch; two KILs.
BranchPrograms ==
    {p \o <<b, o, 2, 2>> : p \in BranchPrefixes, b \in BranchBytes,
                           o \in BranchOffsets}

SpecBranch == InitCpu(BranchPrograms) /\ [][NextBounded]_vars

\* The first interpreter on the programs of MaxInterpret instructions and on
\* the program of its test test_5_ops_working_together, each closed by BRK;
\* a program is interpreted again and again by the same CPU.
InterpretPrograms ==
    {SubSeq(p, 1, Len(p) - 1) \o <<0>> :
         p \in Programs(InterpretOps, MaxInterpret)}
        \cup {<<169, 192, 170, 232, 0>>}

InitInterpret ==
    /\ PowerOn
    /\ rom = 1 /\ code \in InterpretPrograms
    /\ mirroring = "Horizontal"

NextInterpret ==
    \/ New
    \/ Interpret
    \/ InterpretStep

SpecInterpret == InitInterpret /\ [][NextInterpret]_vars

\* The run loop with trace as its callback.
NextTrace ==
    \/ Start
    \/ RunPollNmi
    \/ RunTrace
    \/ RunStep
    \/ RunTick
    \/ Reset

SpecTrace == InitCpu(Programs(TraceOps, MaxProgram)) /\ [][NextTrace]_vars

SpecNop == InitCpu(Programs(NopOps, MaxProgram)) /\ [][NextBounded]_vars

\* The indirect jumps: LDA #a; STA $02FF; LDA #$80; STA $0200; LDA #$33;
\* STA $0300; JMP (p); KIL.  The KIL is at $8012.
JumpPrograms ==
    {<<169, a, 141, 255, 2, 169, 128, 141, 0, 2, 169, 51, 141, 0, 3, 108>>
         \o p \o <<2>> : a \in JumpBytes, p \in JumpPointers}

SpecJump == InitCpu(JumpPrograms) /\ [][NextBounded]_vars

\* The call programs: LDX #x; TXS; the pushes; JSR sub; KIL; sub: RTS.
CallPrograms ==
    {<<162, x, 154>> \o pad \o <<32, 7 + Len(pad), 128, 2, 96>> :
         x \in CallBytes, pad \in CallPads}

SpecCall == InitCpu(CallPrograms) /\ [][NextBounded]_vars

\* The indexed reads: LDA abs,X; LDA abs,Y; LDA ($10),Y.
IndexedReads ==
    {<<189>> \o b : b \in IndexBases} \cup {<<185>> \o b : b \in IndexBases}
        \cup {<<177, 16>>}

\* The programs of indexed reads: LDX #x; LDY #y; LDA #$FF; STA $0010 (the
\* pointer $00FF at $10); an indexed read; KIL.
IndexPrograms ==
    {<<162, x, 160, y, 169, 255, 141, 16, 0>> \o r \o <<2>> :
        x \in IndexBytes, y \in IndexBytes, r \in IndexedReads}

SpecIndex == InitCpu(IndexPrograms) /\ [][NextCpu]_vars

----------------------------------------------------------------------------
(* Claims about PPU timing, checked under Spec.                            *)

\* C1: after any sequence of ticks from scanline 0, dot 0, the counters
\* satisfy 0 <= scanline <= 261 and 0 <= cycle <= 340.
C1_CountersInRange ==
    /\ scanline \in 0..261
    /\ cycles \in 0..340

\* C1 witness: a tick has left the PPU on the last scanline, late in it.
C1_Witness == op = "tick" /\ scanline = 261 /\ cycles > 255

\* C2: the frame callback runs exactly once in a tick that wraps the
\* scanline from 261 to 0, and in no other step.
C2_CallbackOncePerWrap ==
    [][ /\ op' = "tick" =>
            frames' - frames =
                (IF scanline = 261 /\ scanline' = 0 THEN 1 ELSE 0)
        /\ op' # "tick" => frames' = frames ]_vars

\* C2 witness: a tick has wrapped the scanline and the callback has run.
C2_Witness == op = "tick" /\ scanline = 0 /\ frames = 1

\* C3: a tick that advances the scanline to 241 sets the VBlank bit and
\* arms the NMI exactly when PPUCTRL bit 7 is set.
C3_VblankAndNmiAt241 ==
    [][ (op' = "tick" /\ scanline = 240 /\ scanline' = 241) =>
            /\ BitAnd(ppustatus', 128) = 128
            /\ nmi_interrupt' <=> (BitAnd(ppuctrl, 128) = 128) ]_vars

\* C3 witness: a tick has just entered scanline 241 with NMI enabled.
C3_Witness ==
    /\ op = "tick" /\ scanline = 241 /\ cycles < 15
    /\ BitAnd(ppuctrl, 128) = 128 /\ nmi_interrupt

\* The NMI sequence as the run loop's first step must perform it: the
\* program counter pushed high byte first, then a copy of P with bit 4 clear
\* and bit 5 set, at the three stack locations from S downwards; I set; PC
\* loaded from the word at $FFFA; all before the callback and the fetch.
NmiSequenceDone ==
    LET S == get_pointer(stack_pointer)
        p == ArrRead(cpu_ram', 256 + ((S + 254) % 256))
    IN  /\ phase' = "callback"
        /\ ArrRead(cpu_ram', 256 + S) = program_counter \div 256
        /\ ArrRead(cpu_ram', 256 + ((S + 255) % 256)) = program_counter % 256
        /\ BitAnd(p, B_FLAG) = 0
        /\ BitAnd(p, B_FLAG_2) = B_FLAG_2
        /\ BitAnd(p, 207) = BitAnd(status, 207)
        /\ get_pointer(stack_pointer') = (S + 253) % 256
        /\ Contains(status', INTERRUPT_DISABLE_FLAG)
        /\ program_counter' = Vectors(rom)[1] + 256 * Vectors(rom)[2]

\* C4: whenever the NMI-pending flag is set at the start of an iteration of
\* CPU::run, then before the next opcode is fetched the CPU pushes the
\* program counter (high byte, then low byte), pushes a copy of P with bit 4
\* clear and bit 5 set, sets the I flag and loads PC from the word at $FFFA.
C4_NmiSequence ==
    [][(phase = "poll" /\ nmi_interrupt) => NmiSequenceDone]_vars

\* The same sequence where the stack has room for the three bytes: the run
\* loop performs it whenever the stack pointer is at $0102 or above.
NmiSequenceWithRoom ==
    [][(phase = "poll" /\ nmi_interrupt /\ stack_pointer >= 258)
          => NmiSequenceDone]_vars

\* An NMI has been serviced with room on the stack and with I clear before.
NmiSequenceWithRoom_Witness ==
    /\ op = "nmi" /\ stack_pointer = 506 /\ program_counter = 32780
    /\ ArrRead(cpu_ram, 509) = 128 /\ ArrRead(cpu_ram, 508) \in {6, 9}
    /\ ArrRead(cpu_ram, 507) = 34 /\ status = 38

\* The PPU dots that have elapsed since power-on.
DotsElapsed == (frames * 262 + scanline) * 341 + cycles

\* C5: every iteration of CPU::run polls (and, if armed, services) the NMI,
\* then invokes the callback, then fetches and executes one instruction,
\* then ticks the bus by the cycle count that instruction returned; so when
\* an instruction executes, the bus and the PPU have been ticked for all the
\* cycles reported before it and for none of its own.
C5_RunLoopOrder ==
    [][/\ phase = "poll" =>
            /\ phase' = "callback"
            /\ bus_cycles' = charged'
       /\ phase = "callback" =>
            /\ phase' = "step"
            /\ bus_cycles' = bus_cycles /\ charged' = charged
       /\ phase = "step" =>
            /\ bus_cycles = charged
            /\ DotsElapsed = 3 * charged
            /\ bus_cycles' = bus_cycles
            /\ DotsElapsed' = DotsElapsed
            /\ phase' \in {"tick", "done", "panic", "unmodelled"}
            /\ phase' = "tick" => charged' = charged + passed_cycles'
       /\ phase = "tick" =>
            /\ phase' = "poll"
            /\ bus_cycles' = bus_cycles + passed_cycles
            /\ bus_cycles' = charged
            /\ DotsElapsed' = 3 * charged
      ]_vars

\* C5 witness: LDA $2002 has just read the VBlank bit that the ticks of the
\* earlier instructions set, its own cycles not yet ticked.
C5_Witness ==
    /\ op = "step" /\ ret = 173 /\ phase = "tick"
    /\ accumulator = 128 /\ scanline = 241
    /\ bus_cycles + passed_cycles = charged

\* C6: a PPUCTRL write that turns NMI-enable from 0 to 1 while VBlank is
\* set arms the NMI at once, and a poll of an armed NMI returns true.
C6_CtrlEdgeArmsNmi ==
    [][ /\ ( /\ op' = "write_ppuctrl"
              /\ BitAnd(ppuctrl, 128) = 0
              /\ BitAnd(ppuctrl', 128) = 128
              /\ BitAnd(ppustatus, 128) = 128 ) => nmi_interrupt'
        /\ (op' = "poll_nmi" /\ nmi_interrupt) => ret' = 1 ]_vars

\* C6 witness: the write has armed the NMI during vertical blanking while
\* none was pending from the start of the blanking.
C6_Witness ==
    /\ op = "write_ppuctrl" /\ nmi_interrupt
    /\ BitAnd(ppustatus, 128) = 128 /\ scanline > 241

----------------------------------------------------------------------------
(* Claims about the PPU registers, checked under SpecReg.                  *)

\* C7: a read of PPUSTATUS returns the status bits as they were, leaves the
\* VBlank bit clear, and leaves the toggle in its first-write state for both
\* registers: the next PPUSCROLL write sets the X scroll and the next
\* PPUADDR write sets the high address byte.
C7_StatusReadResets ==
    [][ /\ op' = "read_ppustatus" =>
            /\ ret' = ppustatus
            /\ BitAnd(ppustatus', 128) = 0
            /\ ppustatus' = ppustatus - BitAnd(ppustatus, 128)
        /\ (op = "read_ppustatus" /\ op' = "write_ppuscroll") =>
            scroll_data' = <<ret', scroll_data[2]>>
        /\ (op = "read_ppustatus" /\ op' = "write_ppuaddr") =>
            ppuaddr' = (ret' % 64) * 256 + (ppuaddr % 256) ]_vars

\* C7 witness: PPUSTATUS was read with VBlank set after an odd number of
\* writes to each of the two registers.
C7_Witness ==
    /\ op = "read_ppustatus" /\ ret = 128
    /\ scroll_data[1] # 0 /\ scroll_data[2] = 0
    /\ ppuaddr # 0 /\ ppuaddr % 256 = 0

\* C8: PPUSCROLL and PPUADDR share one toggle: after exactly one PPUSCROLL
\* write from the first-write state a PPUADDR write sets the low address
\* byte, and after exactly one PPUADDR write a PPUSCROLL write sets the Y
\* scroll.
C8_SharedToggle ==
    [][ /\ (toggle_writes = <<"scroll">> /\ op' = "write_ppuaddr") =>
            ppuaddr' = (ppuaddr \div 256) * 256 + ret'
        /\ (toggle_writes = <<"addr">> /\ op' = "write_ppuscroll") =>
            scroll_data' = <<scroll_data[1], ret'>> ]_vars

----------------------------------------------------------------------------
(* Claims about the controller, checked under SpecCtl.                     *)

\* The buttons in the order the claim reports them.
ButtonOrder == <<1, 2, 4, 8, 16, 32, 64, 128>>

\* C9: after a write with bit 0 = 1 followed by a write with bit 0 = 0, the
\* next eight reads return the states of A, B, Select, Start, Up, Down, Left,
\* Right in order, and every further read returns 1.
C9_ReadsInButtonOrder ==
    [][ (op' = "controller_read" /\ strobed = "released") =>
            ret' = IF n_reads < 8
                   THEN (buttons \div ButtonOrder[n_reads + 1]) % 2
                   ELSE 1 ]_vars

\* C9 witness: with A and Start pressed, the ninth read after the strobe
\* has returned 1.
C9_Witness ==
    /\ op = "controller_read" /\ strobed = "released"
    /\ n_reads = 9 /\ buttons = 9 /\ ret = 1

\* C10: while the strobe bit is 1, every read returns the state of button A
\* and the index stays 0.
C10_StrobeHoldsIndex ==
    [][ (op' = "controller_read" /\ strobed = "high") =>
            /\ ret' = buttons % 2
            /\ button_index = 0 /\ button_index' = 0 ]_vars

\* C10 witness: three consecutive reads under strobe, the last returning a
\* released A while other buttons are pressed.
C10_Witness ==
    /\ op = "controller_read" /\ strobed = "high"
    /\ n_reads = 3 /\ ret = 0 /\ buttons = 6


----------------------------------------------------------------------------
(* PPU memory through PPUADDR / PPUDATA.                                   *)

\* The VRAM address set by the two $2006 writes at the start of the access
\* record.
AddressSet == BitAnd(256 * access[1].byte + access[2].byte, 16383)

\* The access record starts with a high and a low $2006 write, followed by
\* n PPUDATA reads and nothing else.
PairThenReads(n) ==
    /\ Len(access) = 2 + n
    /\ access[1].kind = "addr" /\ access[2].kind = "addr"
    /\ \A i \in 3..(2 + n) : access[i].kind = "read"

\* The byte stored at an address of the PPU's address space: pattern memory
\* below $2000, the nametables at $2000-$2FFF and their mirror at
\* $3000-$3EFF, the 32-byte palette mirrored through $3F00-$3FFF.
PpuByteAt(address) ==
    CASE address <= 8191 -> ArrRead(chr_rom, address)
      [] address <= 16127 -> ArrRead(vram, mirror_vram_addr(address))
      [] OTHER -> ArrRead(palette_table, (address - 16128) % 32)

\* C12 (as stated; violated): after a high and a low $2006 write from the
\* first-write state, the priming $2007 read returns, and the $2007 read
\* after it returns the byte stored at the address (hi << 8 | lo) AND $3FFF.
C12_SecondReadReturnsByte ==
    [][ /\ (op' = "read_ppudata" /\ PairThenReads(0)) => ret' # Panic
        /\ (op' = "read_ppudata" /\ PairThenReads(1)) =>
               ret' = PpuByteAt(AddressSet) ]_vars

\* C13 (as stated; violated): a $2007 read at a palette address returns the
\* palette byte at once and refills the read buffer with the nametable byte
\* underneath the palette address.
C13_PaletteReadRefillsBuffer ==
    [][ (op' = "read_ppudata" /\ Region(ppuaddr) = "palette") =>
            /\ ret' = ArrRead(palette_table, (ppuaddr - 16128) % 32)
            /\ read_buffer' = ArrRead(vram, mirror_vram_addr(ppuaddr))
      ]_vars

Aliased(mode) ==
    IF mode = "Horizontal" THEN {<<0, 1>>, <<1, 0>>, <<2, 3>>, <<3, 2>>}
    ELSE {<<0, 2>>, <<2, 0>>, <<1, 3>>, <<3, 1>>}

Independent(mode) ==
    IF mode = "Horizontal" THEN {<<0, 2>>, <<2, 0>>}
    ELSE {<<0, 1>>, <<1, 0>>}

\* C15: a byte written through $2007 at offset k of a nametable is the byte
\* a $2007 read fetches at offset k of the nametable aliased to it, and the
\* byte at offset k of the independent nametable is left as it was.
C15_NametableMirroring ==
    [][ (op' = "write_ppudata" /\ ret' # Panic /\ Region(ppuaddr) = "vram") =>
           LET k == ppuaddr % 1024
               from == (ppuaddr - 8192) \div 1024
           IN  \A to \in 0..3 :
                 LET there == 8192 + 1024 * to + k IN
                 /\ <<from, to>> \in Aliased(mirroring) =>
                      ArrRead(vram', mirror_vram_addr(there)) = ret'
                 /\ <<from, to>> \in Independent(mirroring) =>
                      ArrRead(vram', mirror_vram_addr(there))
                          = ArrRead(vram, mirror_vram_addr(there))
      ]_vars

\* C15 witness: under Horizontal mirroring the byte just written at $2305
\* is the one a read fetches at $2705, and $2B05 still holds zero.
C15_Witness ==
    /\ mirroring = "Horizontal"
    /\ op = "write_ppudata" /\ ret = 90
    /\ Len(access) = 3 /\ access[1].byte = 35 /\ access[3].kind = "write"
    /\ ArrRead(vram, mirror_vram_addr(9989)) = 90
    /\ ArrRead(vram, mirror_vram_addr(11013)) = 0


----------------------------------------------------------------------------
(* PPU status at the end of the frame, and the cost of an NMI.             *)

\* C17: when a tick wraps the scanline from 261 to 0, the VBlank,
\* sprite-0-hit and sprite-overflow bits of PPUSTATUS are all clear
\* afterwards.
C17_StatusClearAtWrap ==
    [][ (op' = "tick" /\ scanline = 261 /\ scanline' = 0) =>
            /\ BitAnd(ppustatus', 128) = 0
            /\ BitAnd(ppustatus', 64) = 0
            /\ BitAnd(ppustatus', 32) = 0 ]_vars

\* C17 witness: a tick has just wrapped the scanline, NMI enabled, and the
\* three bits are clear.
C17_Witness ==
    /\ op = "tick" /\ scanline = 0 /\ cycles < 15 /\ frames = 1
    /\ BitAnd(ppuctrl, 128) = 128
    /\ BitAnd(ppustatus, 224) = 0

\* C18 (as stated; violated): servicing an NMI leaves the bus cycle counter
\* exactly 7 above its value before the sequence.
C18_NmiChargesSeven ==
    [][ op' = "nmi" => bus_cycles' = bus_cycles + 7 ]_vars


\* C16 (as stated; violated): when a tick completes a scanline while sprite
\* rendering is enabled, OAM byte 0 equals that scanline and OAM byte 3 is
\* at most the dot counter, bit 6 of PPUSTATUS is set afterwards.
C16_SpriteZeroHitSet ==
    [][ ( /\ op' = "tick"
          /\ scanline' # scanline
          /\ BitAnd(ppumask, 16) = 16
          /\ ArrRead(oam_data, 0) = scanline
          /\ ArrRead(oam_data, 3) <= cycles' + 341 )
        => BitAnd(ppustatus', 64) = 64 ]_vars


----------------------------------------------------------------------------
(* The bus: OAM DMA, work RAM mirroring, PPU register mirroring.           *)

C19_RamMirrors ==
    [][ /\ ( /\ op = "bus_write" /\ op' = "bus_read"
             /\ bus_addr <= 8191 /\ bus_addr' <= 8191
             /\ BitAnd(bus_addr, 2047) = BitAnd(bus_addr', 2047) )
           => ret' = ret
        /\ (op' = "bus_write" /\ bus_addr' <= 8191) =>
               \A i \in (0..2047) \ {BitAnd(bus_addr', 2047)} :
                   ArrRead(cpu_ram', i) = ArrRead(cpu_ram, i) ]_vars

\* C19 witness: the $5A written at $0205 has just been read back at $0A05.
C19_Witness ==
    /\ op = "bus_read" /\ bus_addr = 2565 /\ ret = 90 /\ n_bus = 2
    /\ DOMAIN cpu_ram = {517}

\* Addresses in $2008-$3FFF: each register's first and last mirror, and the
\* mirrors the host accesses.
ProbedMirrors ==
    {8200 + r + 8 * k : r \in 0..7, k \in {0, 1022}} \cup MirrorAddrs

\* Bytes the writes at the two addresses are compared for.
ProbedBytes == {0, 35, 132}

\* C20: at every address a in $2008-$3FFF an 8-bit read returns the same
\* value, and a read or a write has the same effect, as the same access at
\* a AND $2007.
C20_RegisterMirrors ==
    \A a \in ProbedMirrors :
        /\ Bus_read(a) = Bus_read(BitAnd(a, 8199))
        /\ \A v \in ProbedBytes :
               Bus_write(a, v) = Bus_write(BitAnd(a, 8199), v)

\* C20 witness: a write of $23 at $3FFE, a mirror of PPUADDR, has set the
\* high byte of the VRAM address, and a read at $3FFF returns as the read
\* at $2007 does.
C20_Witness ==
    /\ op = "bus_write" /\ bus_addr = 16382 /\ ret = 35
    /\ ppuaddr = 8960 /\ ~addr_latch
    /\ Bus_read(16383) = Bus_read(8199)
    /\ Bus_read(16383).outcome = "ok"

----------------------------------------------------------------------------
(* Claims about refused bus accesses and word reads, checked under         *)
(* SpecFault.                                                              *)

\* The access just made is a read of PPUCTRL, PPUMASK, OAMADDR, PPUSCROLL,
\* PPUADDR or OAMDMA, a write to PPUSTATUS, or a write to PRG ROM.
Refused ==
    \/ /\ op' = "bus_read"
       /\ bus_addr' \in {8192, 8193, 8195, 8197, 8198, 16404}
    \/ /\ op' = "bus_write"
       /\ (bus_addr' = 8194 \/ bus_addr' \in 32768..65535)

\* C21: an 8-bit read of a write-only register ($2000, $2001, $2003, $2005,
\* $2006, $4014), a write to $2002 and a write to $8000-$FFFF each end in a
\* fatal error: none completes as a normal access and none changes RAM, the
\* PPU or the PRG ROM.
C21_RefusedAccessesFatal ==
    [][Refused =>
         /\ ret' = Panic
         /\ UNCHANGED <<cpu_ram, ppuVars, memVars, rom, code>>]_vars

C21_Witness ==
    /\ op = "bus_write" /\ bus_addr = 65535 /\ ret = Panic
    /\ cpu_ram # EmptyArr /\ ppuctrl # 0

\* The last index of the region a word read at address falls in, when the
\* word's first byte lies there.
AtRegionEnd(address) ==
    \/ address <= 8191 /\ BitAnd(address, 2047) = 2047
    \/ address >= 32768 /\ PrgIndex(address) = PRG_ROM_SIZE - 1

\* The word whose first byte is the last byte of the region and whose second
\* byte is the region's first byte.
WrappedWord(address) ==
    IF address <= 8191
    THEN ArrRead(cpu_ram, 2047) + 256 * ArrRead(cpu_ram, 0)
    ELSE prg_rom(PRG_ROM_SIZE - 1) + 256 * prg_rom(0)

\* C22: a 16-bit read whose second byte would fall past the end of its
\* region completes without a fault and takes the second byte from the
\* start of the region: RAM index 0 after $07FF, PRG offset 0 after the
\* last PRG byte.
C22_WordReadWraps ==
    [][op' = "bus_read16" /\ AtRegionEnd(bus_addr') =>
         ret' # Panic /\ ret' = WrappedWord(bus_addr')]_vars

----------------------------------------------------------------------------
(* Claims about reset and the stack, checked under SpecStack.              *)

\* The little-endian word the cartridge holds at $FFFC.
ResetWord == prg_rom(PrgIndex(65532)) + 256 * prg_rom(PrgIndex(65533))

\* C23: after reset, from any prior CPU state, the stack pointer byte is
\* $FD, the status register is $24, A, X and Y are 0 and the program
\* counter is the little-endian word stored at $FFFC.
C23_ResetState ==
    [][op' = "reset" =>
         /\ stack_pointer' = 509 /\ get_pointer(stack_pointer') = 253
         /\ status' = 36
         /\ accumulator' = 0 /\ register_x' = 0 /\ register_y' = 0
         /\ program_counter' = ResetWord]_vars

\* A reset after a run that has pushed the byte $80 below the initial stack
\* pointer.
C23_Witness ==
    /\ op = "reset" /\ phase = "reset"
    /\ ArrRead(cpu_ram, 508) = 128
    /\ stack_pointer = 509 /\ accumulator = 0 /\ program_counter = 32768

\* The byte the cartridge holds at offset k from the program counter.
CodeAt(k) == prg_rom(PrgIndex(program_counter + k))

\* The run is about to execute a PLA that directly follows a PHA.
PlaAfterPha ==
    /\ phase = "step" /\ program_counter > 32768
    /\ CodeAt(0) = 104 /\ CodeAt(-1) = 72

\* C26: for every accumulator value and every stack pointer value, PHA
\* followed immediately by PLA completes without error, leaves A and the
\* stack pointer as they were before PHA and sets Z and N from the pulled
\* value.  PHA leaves A alone and lowers the stack pointer by one, so the
\* PLA has to return A and raise the pointer by one.
C26_PhaPlaRestores ==
    [][PlaAfterPha /\ op' = "step" =>
         /\ phase' # "panic"
         /\ accumulator' = accumulator
         /\ stack_pointer' = stack_pointer + 1
         /\ status' = LoadFlags(status, accumulator)]_vars

\* The stack pointer addresses a byte of the stack page.
InStackPage(sp) == 256 <= sp /\ sp <= 511

\* C27: a push that would move the stack pointer below $0100 fails with
\* Overflow and a pull that would move it above $01FF fails with Underflow,
\* so the stack pointer always addresses a byte of page $0100-$01FF and no
\* push or pull touches memory outside the page.
C27_StackStaysInPage ==
    /\ InStackPage(stack_pointer)
    /\ \A i \in DOMAIN cpu_ram : InStackPage(i)

----------------------------------------------------------------------------
(* Claims about the status register, checked under SpecFlags.              *)

\* The instruction just executed is BRK or PHP.
AfterBrkOrPhp == op = "step" /\ ret \in {0, 8}

\* C24: in every state reached from reset, bit 5 (U) of P is 1, and bit 4
\* (B) is 0 except possibly immediately after BRK or PHP.
C24_UnusedSetBreakClear ==
    phase # "idle" =>
      /\ Contains(status, B_FLAG_2)
      /\ AfterBrkOrPhp \/ ~Contains(status, B_FLAG)

\* PLP has pulled the byte $DF, which has B set and U clear.
C24_Witness == op = "step" /\ ret = 40 /\ status = 239 /\ phase = "tick"

\* The run is about to execute a PLP that directly follows a PHP.
PlpAfterPhp ==
    /\ phase = "step" /\ program_counter > 32768
    /\ CodeAt(0) = 40 /\ CodeAt(-1) = 8

\* C25: PHP followed by PLP leaves every bit of P as it was before PHP,
\* except that B is forced to 0 and U to 1.  PHP leaves P alone.
C25_PhpPlpRestores ==
    [][PlpAfterPhp /\ op' = "step" =>
         /\ phase' # "panic"
         /\ status' = SetFlag(SetFlag(status, B_FLAG, FALSE), B_FLAG_2,
                              TRUE)]_vars

\* The run is about to execute a BRK.
AtBrk == phase = "step" /\ program_counter >= 32768 /\ CodeAt(0) = 0

\* The word the stack holds in the two bytes below address top.
PushedWord(ram, top) == 256 * ArrRead(ram, top) + ArrRead(ram, top - 1)

\* C28: BRK pushes the program counter (the address after the opcode, or
\* after its padding byte), pushes P with B = 1, sets I and loads the
\* program counter from the little-endian word at $FFFE.
C28_BrkPushesBreak ==
    [][AtBrk /\ op' = "step" =>
         /\ stack_pointer' = stack_pointer - 3
         /\ PushedWord(cpu_ram', stack_pointer) \in
              {program_counter + 1, program_counter + 2}
         /\ ArrRead(cpu_ram', stack_pointer - 2) = BitOr(status, B_FLAG)
         /\ status' = SetFlag(status, INTERRUPT_DISABLE_FLAG, TRUE)
         /\ program_counter' =
              prg_rom(PrgIndex(65534)) + 256 * prg_rom(PrgIndex(65535))]_vars

----------------------------------------------------------------------------
(* Claims about arithmetic, checked under SpecAlu.                         *)

\* The sign bit of a byte.
Sign(b) == b \div 128

\* The accumulator and status a 6502 leaves after adding m and the carry c
\* to a: A = (a + m + c) mod 256, C = 1 iff the sum exceeds 255, V = 1 iff
\* a and m have the same sign and the result has the other, Z = 1 iff the
\* result is 0, N = bit 7 of the result; the other bits of p are kept.
Added(a, p, m) ==
    LET c   == p % 2
        sum == a + m + c
        res == sum % 256
        v   == Sign(a) = Sign(m) /\ Sign(res) # Sign(a)
        kept == (p \div 4) % 16
    IN  [a |-> res,
         status |-> Bool2Int(sum > 255) + 2 * Bool2Int(res = 0) + 4 * kept
                    + 64 * Bool2Int(v) + 128 * Sign(res)]

\* The run is about to execute ADC #m or SBC #m.
AtAdc == phase = "step" /\ program_counter >= 32768 /\ CodeAt(0) = 105
AtSbc == phase = "step" /\ program_counter >= 32768 /\ CodeAt(0) = 233

\* C30: for all A and M in 0..255 and carry-in C, ADC leaves
\* A = (A + M + C) mod 256, C = 1 iff A + M + C > 255, V = 1 iff A and M
\* have the same sign bit and the result has the other, Z = 1 iff the
\* result is 0 and N = bit 7 of the result; SBC with operand M leaves the
\* registers and flags that ADC leaves with operand M XOR $FF.
C30_AdcSbc ==
    /\ [][AtAdc /\ op' = "step" =>
            LET x == Added(accumulator, status, CodeAt(1)) IN
            /\ phase' = "tick"
            /\ accumulator' = x.a /\ status' = x.status]_vars
    /\ [][AtSbc /\ op' = "step" =>
            LET x == Added(accumulator, status, 255 - CodeAt(1)) IN
            /\ phase' = "tick"
            /\ accumulator' = x.a /\ status' = x.status]_vars
    /\ [](phase = "idle" /\ code = <<169, 0, 24, 105, 0, 2>> =>
            \A a \in 0..255, m \in 0..255, p \in {36, 37} :
                LET x == adc_operation(a, p, m)
                    y == Added(a, p, m)
                IN  x.a = y.a /\ x.status = y.status)

\* ADC #$01 has added 1 to $7F with the carry clear: A = $80 with V and N
\* set, Z and C clear.
C30_Witness ==
    /\ op = "step" /\ ret = 105 /\ code = <<169, 127, 24, 105, 1, 2>>
    /\ accumulator = 128 /\ status = 228

----------------------------------------------------------------------------
(* Claims about the end of the run, checked under SpecHalt.                *)

\* The opcode bytes of KIL in the instruction table.
KilBytes == {2, 18, 34, 50, 66, 82, 98, 114, 146, 178, 210, 242}

\* C29: CPU::run returns successfully exactly when a KIL opcode is fetched,
\* and does so without executing any further instruction; every other
\* fetched opcode either continues the loop or ends the run with a fatal
\* error.
C29_RunReturnsAtKil ==
    /\ [][phase' = "done" <=>
            phase = "step" /\ op' = "step" /\ ret' \in KilBytes]_vars
    /\ [][phase = "done" => op' = "reset"]_vars
    /\ [][op' = "step" /\ ret' \notin KilBytes =>
            phase' \in {"tick", "panic"}]_vars

\* The run has returned at a KIL that is not the last instruction of the
\* program.
C29_Witness ==
    /\ phase = "done" /\ op = "step" /\ ret = 242
    /\ program_counter < 32768 + Len(code) - 1

----------------------------------------------------------------------------
(* Claims about branches, checked under SpecBranch.                        *)

\* The run is about to execute a conditional branch of the program.
AtBranch ==
    /\ phase = "step" /\ program_counter >= 32768
    /\ CodeAt(0) \in BranchBytes

\* Whether the 6502 takes the branch with opcode byte b when the status
\* register holds p: BPL, BMI on N; BVC, BVS on V; BCC, BCS on C; BNE, BEQ
\* on Z.
Taken(b, p) ==
    CASE b = 16  -> BitAnd(p, 128) = 0
      [] b = 48  -> BitAnd(p, 128) # 0
      [] b = 80  -> BitAnd(p, 64) = 0
      [] b = 112 -> BitAnd(p, 64) # 0
      [] b = 144 -> BitAnd(p, 1) = 0
      [] b = 176 -> BitAnd(p, 1) # 0
      [] b = 208 -> BitAnd(p, 2) = 0
      [] OTHER   -> BitAnd(p, 2) # 0

\* The address next plus the signed 8-bit offset o, in 16 bits.
Target(next, o) ==
    (next + (IF o < 128 THEN o ELSE o - 256) + 65536) % 65536

\* C31: every conditional branch returns 2 cycles when not taken, 3 when
\* taken to a target on the page of the following instruction and 4 when
\* taken to another page, and leaves PC at the following instruction (not
\* taken) or at that address plus the signed offset (taken).
C31_BranchCycles ==
    /\ [][AtBranch =>
            LET next   == (program_counter + 2) % 65536
                target == Target(next, CodeAt(1))
            IN  /\ phase' = "tick"
                /\ IF Taken(CodeAt(0), status)
                   THEN /\ program_counter' = target
                        /\ passed_cycles' =
                             (IF target \div 256 = next \div 256 THEN 3
                              ELSE 4)
                   ELSE /\ program_counter' = next
                        /\ passed_cycles' = 2]_vars
    /\ [](phase = "idle" /\ code = <<24, 16, 1, 2, 2>> =>
            \A pc \in BranchPcs, o \in 0..255 :
                move_with_offset(pc, o) =
                    [pc |-> Target(pc, o),
                     page_crossed |-> Target(pc, o) \div 256 # pc \div 256])

\* C31 witness: a taken branch with a negative offset has left the page of
\* the following instruction and returned 4 cycles.
C31_Witness ==
    /\ op = "step" /\ ret \in BranchBytes /\ phase = "tick"
    /\ passed_cycles = 4 /\ program_counter < 32768

----------------------------------------------------------------------------
(* Claims about indexed reads, checked under SpecIndex.                    *)

\* The run is about to execute LDA abs,X, LDA abs,Y or LDA (zp),Y.
AtIndexedRead ==
    /\ phase = "step" /\ program_counter >= 32768
    /\ CodeAt(0) \in {177, 185, 189}

\* The 16-bit base address of the indexed read at the program counter, and
\* the index added to it.
BaseAddress ==
    IF CodeAt(0) = 177
    THEN ArrRead(cpu_ram, CodeAt(1))
             + 256 * ArrRead(cpu_ram, (CodeAt(1) + 1) % 256)
    ELSE CodeAt(1) + 256 * CodeAt(2)

IndexAdded == IF CodeAt(0) = 189 THEN register_x ELSE register_y

\* C32: a read through AbsoluteX, AbsoluteY or (Indirect),Y returns the
\* table's base count plus 1 exactly when the high byte of base + index
\* differs from the high byte of the base, and the base count otherwise.
C32_IndexedReadCycles ==
    [][AtIndexedRead =>
          passed_cycles' =
              Instruction(CodeAt(0)).cycles
                  + (IF ((BaseAddress + IndexAdded) % 65536) \div 256
                            # BaseAddress \div 256
                     THEN 1 ELSE 0)]_vars

----------------------------------------------------------------------------
(* Claims about indirect jumps, checked under SpecJump.                    *)

\* The byte at a CPU address in RAM, in a mirror of RAM or in PRG ROM.
ByteAt(address) ==
    IF address < 8192 THEN ArrRead(cpu_ram, address % 2048)
    ELSE prg_rom(PrgIndex(address))

\* The run is about to execute JMP (p).
AtJmpIndirect ==
    /\ phase = "step" /\ program_counter >= 32768
    /\ CodeAt(0) = 108

----------------------------------------------------------------------------
(* Claims about the no-operation opcodes, checked under SpecNop.           *)

\* The opcode bytes of NOP, DOP and TOP that the programs use.
NopBytes == {234, 128, 4, 20, 12, 28}

\* The run is about to execute a NOP variant of the program.
AtNop ==
    /\ phase = "step" /\ program_counter >= 32768
    /\ CodeAt(0) \in NopBytes

\* The operand width of the NOP variant with opcode byte b: 0 for Implied,
\* 1 for Immediate, ZeroPage and ZeroPageX, 2 for Absolute and AbsoluteX.
NopWidth(b) ==
    CASE b = 234 -> 0
      [] b \in {128, 4, 20} -> 1
      [] OTHER -> 2

\* Whether the AbsoluteX operand at the program counter crosses a page.
NopCrosses ==
    /\ CodeAt(0) = 28
    /\ (CodeAt(1) + register_x) \div 256 # 0

\* C34: every NOP variant completes without a fault, advances PC by 1 plus
\* the operand width of its mode, returns its base cycles plus 1 only when
\* an AbsoluteX operand crosses a page, and changes no other register, no
\* flag and no memory.
C34_NopVariants ==
    [][AtNop =>
          /\ phase' = "tick"
          /\ program_counter' =
                 (program_counter + 1 + NopWidth(CodeAt(0))) % 65536
          /\ passed_cycles' =
                 Instruction(CodeAt(0)).cycles
                     + (IF NopCrosses THEN 1 ELSE 0)
          /\ UNCHANGED <<accumulator, register_x, register_y, status,
                         stack_pointer, cpu_ram, memVars>>]_vars

----------------------------------------------------------------------------
(* Claims about tracing, checked under SpecTrace.                          *)

\* The state of the PPU and of the controllers.
DeviceState ==
    <<ppuVars, oamaddr, vram, palette_table, chr_rom, read_buffer, ctlVars,
      ctl2Vars>>

\* C35: producing a trace line performs no bus read of a PPU register or
\* controller port, mirrors included, so it never raises the
\* write-only-register fault and leaves the PPU and the controllers as they
\* were.
C35_TraceReadsNoRegister ==
    [][op' = "trace" => phase' # "panic" /\ UNCHANGED DeviceState]_vars

----------------------------------------------------------------------------
(* Claims about the first interpreter, checked under SpecInterpret.        *)

\* The Z and N bits of the status are those of the value v.
FlagsReflect(bits, v) ==
    /\ (BitAnd(bits, 2) # 0) <=> (v = 0)
    /\ (BitAnd(bits, 128) # 0) <=> (v >= 128)

\* The interpreter is about to interpret the opcode b.
AtOpcode(b) ==
    /\ phase = "interpret" /\ program_counter < Len(code)
    /\ code[program_counter + 1] = b

\* C36: interpreting a program of LDA #imm, TAX and INX closed by BRK
\* returns Ok at the BRK: LDA leaves the immediate in A, TAX leaves A in X,
\* INX leaves X + 1 modulo 256 in X, each with Z and N of its result and the
\* other register as it was, and nothing fails; the program A9 C0 AA E8 00
\* ends with A = $C0, X = $C1, Z = 0, N = 1.
C36_Interpret ==
    /\ [][AtOpcode(169) =>
            /\ accumulator' = code[program_counter + 2]
            /\ register_x' = register_x
            /\ FlagsReflect(status', accumulator')
            /\ program_counter' = program_counter + 2
            /\ phase' = "interpret"]_vars
    /\ [][AtOpcode(170) =>
            /\ register_x' = accumulator /\ accumulator' = accumulator
            /\ FlagsReflect(status', register_x')
            /\ program_counter' = program_counter + 1
            /\ phase' = "interpret"]_vars
    /\ [][AtOpcode(232) =>
            /\ register_x' = (register_x + 1) % 256
            /\ accumulator' = accumulator
            /\ FlagsReflect(status', register_x')
            /\ program_counter' = program_counter + 1
            /\ phase' = "interpret"]_vars
    /\ [][AtOpcode(0) =>
            /\ phase' = "returned"
            /\ program_counter = Len(code) - 1
            /\ UNCHANGED <<accumulator, register_x, status>>]_vars
    /\ [](phase \in {"idle", "new", "interpret", "returned"})
    /\ [](phase = "returned" /\ code = <<169, 192, 170, 232, 0>> =>
            /\ accumulator = 192 /\ register_x = 193
            /\ BitAnd(status, 2) = 0 /\ BitAnd(status, 128) = 128)

\* C36 witness: INX has wrapped X from $FF to $00 and set Z, in a program
\* that the CPU has interpreted before.
C36_Witness ==
    /\ op = "interpret_step" /\ ret = 232
    /\ register_x = 0 /\ accumulator # 0
    /\ BitAnd(status, 2) = 2 /\ BitAnd(status, 128) = 0

----------------------------------------------------------------------------
(* Claims about the clocks of the run, checked under SpecRun.              *)

\* C37: in every state reachable through CPU::run, instructions and NMI
\* servicing included, the PPU dots elapsed since power-on are exactly 3
\* times the bus's CPU cycle counter.
C37_ThreeDotsPerCycle == DotsElapsed = 3 * bus_cycles

\* C37 witness: the NMI sequence has ticked the bus during vertical
\* blanking.
C37_Witness ==
    /\ op = "nmi" /\ scanline >= 241
    /\ bus_cycles > 27000 /\ bus_cycles = charged

----------------------------------------------------------------------------
(* Claims about faults of PPUDATA accesses, checked under SpecMem.         *)

\* C38: for every VRAM address in $0000-$3FFF reachable through PPUADDR
\* writes and auto-increment, a PPUDATA read or write completes without a
\* fault: it never panics and never indexes outside the CHR data, the 2 KiB
\* VRAM or the 32-byte palette table.
C38_DataAccessNeverFaults ==
    [][op' \in {"read_ppudata", "write_ppudata"} =>
          /\ ret' # Panic
          /\ InBounds(ppuaddr)]_vars

----------------------------------------------------------------------------
(* Claims about TXS and about calls, checked under SpecCall.               *)

\* The run is about to execute TXS.
AtTxs ==
    /\ phase = "step" /\ program_counter >= 32768
    /\ CodeAt(0) = 154

\* C39: TXS sets the stack pointer to X for every X in 0..255, $00, $01 and
\* $FF included, without an error and without leaving the stack pointer at
\* its old value.
C39_TxsSetsPointer ==
    [][AtTxs /\ op' = "step" =>
         /\ phase' # "panic"
         /\ stack_pointer' = 256 + register_x]_vars


\* The run is about to execute JSR.
AtJsr ==
    /\ phase = "step" /\ program_counter >= 32768
    /\ CodeAt(0) = 32

\* The run is about to execute the RTS its JSR called: the JSR is four bytes
\* before the RTS, and its operand is the address of the RTS, so the
\* stack is as the JSR left it.
AtRtsOfJsr ==
    /\ phase = "step" /\ program_counter >= 32768 + 4
    /\ CodeAt(0) = 96 /\ CodeAt(-4) = 32
    /\ CodeAt(-3) + 256 * CodeAt(-2) = program_counter

\* C40: JSR at address a pushes a + 2, high byte first, then low byte, and
\* an RTS executed with the stack pointer and the stack bytes as the JSR
\* left them pulls that word and adds 1: it resumes at a + 3 with the stack
\* pointer as it was before the JSR.
C40_JsrRtsRoundTrip ==
    /\ [][AtJsr /\ op' = "step" =>
            /\ phase' # "panic"
            /\ program_counter' = CodeAt(1) + 256 * CodeAt(2)
            /\ stack_pointer' = stack_pointer - 2
            /\ ArrRead(cpu_ram', stack_pointer) = (program_counter + 2) \div 256
            /\ ArrRead(cpu_ram', stack_pointer - 1) = (program_counter + 2) % 256]_vars
    /\ [][AtRtsOfJsr /\ op' = "step" =>
            /\ phase' # "panic"
            /\ program_counter' = program_counter - 4 + 3
            /\ stack_pointer' = stack_pointer + 2]_vars

====
